---- MODULE Spec2Model ----
(***************************************************************************)
(* Telephony <-> voice-AI relay of joseluisflo/partykitServer.             *)
(*                                                                         *)
(* The repository holds several revisions of one Durable Object class      *)
(* (PartyKitDurable).  One instance of the class is modelled; the variable *)
(* rev fixes which revision's handlers run.  Every handler runs to         *)
(* completion (one JavaScript task) and is one action; the awaited         *)
(* ai.live.connect is split at the await: the call, and the continuation   *)
(* that assigns this.googleAISession (or runs the catch block).            *)
(*                                                                         *)
(* A handle is 0 (null) or a number in HandleIds; a socket is 0 (null) or  *)
(* a number in SockIds.  A media frame is named by its arrival number, an  *)
(* AI audio chunk by its emission number.                                  *)
(***************************************************************************)
EXTENDS Integers, Sequences, FiniteSets, TLC

\* Bounds of the model.
MaxHandles == 2
MaxSockets == 2
\* Sockets accepted and connects issued, together, in one run.
MaxResources == 3
MaxFrames == 2
MaxChunks == 1
\* close() calls on one socket or handle are counted up to CallCap.
CallCap == 2
\* Longest mu-law buffer decoded.
MaxLen == 2
\* Longest URL path, in segments, and number of requests routed.
MaxPath == 3
MaxRequests == 2

HandleIds == 1..MaxHandles
SockIds == 1..MaxSockets

\* The revisions of the class that are modelled:
\*   "queue"    src/unnamed/part_001, lines 134-307
\*   "native"   src/src/party/main.ts, lines 239-407
\*   "partykit" src/src/party/main.ts, lines 20-195
\*   "rawws"    src/unnamed/part_000, lines 10-145
\*   "mulawq"   src/unnamed/part_002, lines 14-186
\*   "callserver" src/unnamed/part_000, lines 172-336
\*   "testmode" src/unnamed/part_004, lines 49-279
\*   "codec" src/unnamed/part_004, lines 15-47 and 126-128
\*   "router" src/unnamed/part_000, lines 339-355
Revisions == {"queue", "native", "partykit", "rawws", "mulawq", "callserver",
              "testmode", "codec", "router"}

VARIABLES
  rev,                  \* which revision of the class this instance runs
  hasKey,               \* env.GEMINI_API_KEY is set
  googleAISession,      \* this.googleAISession: 0 or a handle
  isGoogleAIConnected,  \* this.isGoogleAIConnected
  pendingAudioQueue,    \* this.pendingAudioQueue: sequence of frames
  twilioStreamSid,      \* this.twilioStreamSid: 0 or the sid of a start event
  ws,                   \* this.ws: 0 or a socket
  sock,                 \* socket -> "none" | "open" | "closing" | "closed" | "refused"
  wsCloseCalls,         \* socket -> number of close() calls made on it
  hst,                  \* handle -> "unused" | "config" | "pending" | "resolved"
                        \*           | "rejected"
  opened,               \* handle -> its onopen callback was delivered
  hended,               \* handle -> its onclose callback was delivered
  hcloseCalls,          \* handle -> number of close() calls made on it
  hsock,                \* handle -> the socket whose handler issued the connect
  aiReceived,           \* handle -> sequence of sendRealtimeInput requests (0: text)
  twilioSent,           \* socket -> sequence of media messages sent on it: the
                        \* chunk c, its streamSid, the handle it came from and
                        \* the form of its payload
  arrivalLog,           \* per arrived frame: "forwarded" | "queued" | "dropped"
  nChunks,              \* number of AI audio chunks emitted so far
  lastDrain,            \* what the last onopen drain removed and submitted
  closedOnce,           \* onClose has run at least once
  fwdAfterClose,        \* audio was forwarded, either way, after onClose had run
  sendOnNotOpen,        \* send() was called on a socket that was not OPEN
  lastOp,               \* "onClose" when the last handler invoked onClose,
                        \* "onClose2" when the one before it did too; else the
                        \* kind of message or event the last handler was given
                        \* where a property needs it, "other" where none does
  muLawBuffer,          \* sendAudioToGoogle: the decoded base64 payload, bytes
  pcm8kBuffer,          \* sendAudioToGoogle: samples returned by muLawToLinear16
  pcm16kBuffer,         \* sendAudioToGoogle: samples returned by upsampleTo16k
  codecStep,            \* "input" | "decoded" | "upsampled"
  routerLog             \* per request the router handled: its path, whether it
                        \* was passed to a Durable Object, the object's name

progVars == <<googleAISession, isGoogleAIConnected, pendingAudioQueue,
              twilioStreamSid, ws>>
envVars == <<sock, wsCloseCalls, hst, opened, hended, hcloseCalls, hsock,
             aiReceived, twilioSent>>
ghostVars == <<arrivalLog, nChunks, lastDrain, closedOnce, fwdAfterClose,
               sendOnNotOpen, lastOp>>
codecVars == <<muLawBuffer, pcm8kBuffer, pcm16kBuffer, codecStep>>
vars == <<rev, hasKey, progVars, envVars, ghostVars, codecVars, routerLog>>

nArrived == Len(arrivalLog)

NoDrain == [h |-> 0, q |-> <<>>, sent |-> <<>>, at |-> 0]

\* The instance after construction, no transcoding under way.
InitRev(r) ==
  /\ muLawBuffer = <<>>
  /\ pcm8kBuffer = <<>>
  /\ pcm16kBuffer = <<>>
  /\ codecStep = "input"
  /\ routerLog = <<>>
  /\ rev = r
  /\ hasKey \in BOOLEAN
  /\ googleAISession = 0
  /\ isGoogleAIConnected = FALSE
  /\ pendingAudioQueue = <<>>
  /\ twilioStreamSid = 0
  /\ ws = 0
  /\ sock = [s \in SockIds |-> "none"]
  /\ wsCloseCalls = [s \in SockIds |-> 0]
  /\ hst = [h \in HandleIds |-> "unused"]
  /\ opened = [h \in HandleIds |-> FALSE]
  /\ hended = [h \in HandleIds |-> FALSE]
  /\ hcloseCalls = [h \in HandleIds |-> 0]
  /\ hsock = [h \in HandleIds |-> 0]
  /\ aiReceived = [h \in HandleIds |-> <<>>]
  /\ twilioSent = [s \in SockIds |-> <<>>]
  /\ arrivalLog = <<>>
  /\ nChunks = 0
  /\ lastDrain = NoDrain
  /\ closedOnce = FALSE
  /\ fwdAfterClose = FALSE
  /\ sendOnNotOpen = FALSE
  /\ lastOp = "other"

\* The queueing revision is the default specification's.
Init == InitRev("queue")

(***************************************************************************)
(* Collaborators: the WebSocket and the LiveSession handle.                *)
(***************************************************************************)

\* Sockets accepted and connects issued so far.
Used == Cardinality({s \in SockIds : sock[s] # "none"})
        + Cardinality({h \in HandleIds : hst[h] # "unused"})

\* The next socket / handle the runtime hands out (0: the bound is reached).
FreshSock == IF \E s \in SockIds : sock[s] = "none"
             THEN CHOOSE s \in SockIds :
                    sock[s] = "none" /\ \A t \in SockIds : sock[t] = "none" => s <= t
             ELSE 0
FreshHandle == IF \E h \in HandleIds : hst[h] = "unused"
               THEN CHOOSE h \in HandleIds :
                      hst[h] = "unused" /\ \A g \in HandleIds : hst[g] = "unused" => h <= g
               ELSE 0

\* A socket delivers message events until its close event is dispatched.
Delivers(s) == sock[s] \in {"open", "closing"}
\* WebSocket.readyState === WebSocket.OPEN
IsOpen(sk, s) == s # 0 /\ sk[s] = "open"

\* One more call, counted up to CallCap.
Bump(n) == IF n < CallCap THEN n + 1 ELSE n

\* WebSocket.close(): the socket leaves OPEN; the call is counted.
SockAfterClose(sk, s) == IF s # 0 /\ sk[s] = "open" THEN [sk EXCEPT ![s] = "closing"] ELSE sk
CallsAfterClose(cc, s) == IF s # 0 THEN [cc EXCEPT ![s] = Bump(@)] ELSE cc

\* LiveSession.close() on handle h (0: no call is made).
HandleCallsAfterClose(hc, h) == IF h # 0 THEN [hc EXCEPT ![h] = Bump(@)] ELSE hc

\* LiveSession.sendRealtimeInput(item) on handle h (0: h?.send is skipped).
Submit(rcv, h, items) == IF h # 0 THEN [rcv EXCEPT ![h] = @ \o items] ELSE rcv

\* lastOp after a handler that invoked onClose.
AfterOnClose == IF lastOp = "other" THEN "onClose" ELSE "onClose2"

\* The handle is live: obtained from connect and close() never called on it,
\* nor closed by the AI side.
Live(h) == hst[h] = "resolved" /\ hcloseCalls[h] = 0 /\ ~hended[h]

\* The form of an audio payload: its encoding and its sample rate.  An AI
\* audio chunk is 16-bit linear PCM at 24 kHz; telephony audio is mu-law at
\* 8 kHz.
AIOutputFormat == [enc |-> "pcm16", rate |-> 24000]
TelephonyFormat == [enc |-> "mulaw", rate |-> 8000]

\* audioUtils.downsampleBuffer(buffer, fromRate, toRate): linear PCM
\* resampled from fromRate to toRate.
downsampleBuffer(buf, fromRate, toRate) ==
  [buf EXCEPT !.rate = (buf.rate * toRate) \div fromRate]

\* audioUtils.linear16ToMuLaw(buffer): linear PCM encoded to mu-law, at the
\* rate it has.
linear16ToMuLaw(buf) == [buf EXCEPT !.enc = "mulaw"]

(***************************************************************************)
(* Revision "queue": src/unnamed/part_001, lines 134-307.                  *)
(***************************************************************************)

\* onClose() without "this.googleAISession = null".
Queue_onClose_KeepsHandle(sk) ==
  /\ isGoogleAIConnected' = FALSE
  /\ hcloseCalls' = HandleCallsAfterClose(hcloseCalls, googleAISession)
  /\ googleAISession' = googleAISession
  /\ sock' = (IF IsOpen(sk, ws) THEN SockAfterClose(sk, ws) ELSE sk)
  /\ wsCloseCalls' = (IF IsOpen(sk, ws) THEN CallsAfterClose(wsCloseCalls, ws)
                      ELSE wsCloseCalls)
  /\ closedOnce' = TRUE
  /\ lastOp' = AfterOnClose

\* onClose(), run on the socket states sk its caller leaves.
Queue_onClose(sk) ==
  /\ isGoogleAIConnected' = FALSE
  /\ hcloseCalls' = HandleCallsAfterClose(hcloseCalls, googleAISession)
  /\ googleAISession' = 0
  /\ sock' = (IF IsOpen(sk, ws) THEN SockAfterClose(sk, ws) ELSE sk)
  /\ wsCloseCalls' = (IF IsOpen(sk, ws) THEN CallsAfterClose(wsCloseCalls, ws)
                      ELSE wsCloseCalls)
  /\ closedOnce' = TRUE
  /\ lastOp' = AfterOnClose

\* fetch() -> handleConnection(server): accept, this.ws = webSocket, listeners.
Queue_handleConnection(s) ==
  /\ rev = "queue"
  /\ s # 0 /\ s = FreshSock /\ Used < MaxResources
  /\ sock' = [sock EXCEPT ![s] = "open"]
  /\ ws' = s
  /\ lastOp' = "other"
  /\ UNCHANGED <<codecVars, routerLog, rev, hasKey, googleAISession, isGoogleAIConnected, pendingAudioQueue,
                 twilioStreamSid, wsCloseCalls, hst, opened, hended, hcloseCalls,
                 hsock, sendOnNotOpen, aiReceived, twilioSent, arrivalLog, nChunks, lastDrain,
                 closedOnce, fwdAfterClose>>

\* onMessage, "start" branch, with connectToGoogleAI up to the await.
\* paramsOk: customParameters carries systemInstruction and agentId.
Queue_onMessage_start(s, paramsOk) ==
  /\ rev = "queue"
  /\ Delivers(s)
  /\ twilioStreamSid' = s
  /\ lastOp' = "other"
  /\ IF paramsOk /\ hasKey
     THEN /\ FreshHandle # 0 /\ Used < MaxResources
          /\ hst' = [hst EXCEPT ![FreshHandle] = "pending"]
          /\ hsock' = [hsock EXCEPT ![FreshHandle] = s]
          /\ UNCHANGED <<sock, wsCloseCalls>>
     ELSE /\ sock' = SockAfterClose(sock, ws)
          /\ wsCloseCalls' = CallsAfterClose(wsCloseCalls, ws)
          /\ UNCHANGED <<hst, hsock>>
  /\ UNCHANGED <<codecVars, routerLog, rev, hasKey, googleAISession, isGoogleAIConnected, pendingAudioQueue,
                 ws, opened, hended, hcloseCalls, sendOnNotOpen, aiReceived, twilioSent,
                 arrivalLog, nChunks, lastDrain, closedOnce, fwdAfterClose>>

\* The "media" branch with the else branch left out: a frame that arrives
\* when the session is not ready is discarded.
Queue_onMessage_media_DropsWhenNotReady(s) ==
  /\ rev = "queue"
  /\ Delivers(s)
  /\ nArrived < MaxFrames
  /\ LET k == nArrived + 1
         ready == isGoogleAIConnected /\ googleAISession # 0
     IN /\ aiReceived' = (IF ready THEN Submit(aiReceived, googleAISession, <<k>>)
                          ELSE aiReceived)
        /\ arrivalLog' = Append(arrivalLog, IF ready THEN "forwarded" ELSE "queued")
        /\ fwdAfterClose' = (fwdAfterClose \/ (ready /\ closedOnce))
  /\ lastOp' = "other"
  /\ UNCHANGED <<codecVars, routerLog, rev, hasKey, progVars, sock, wsCloseCalls, hst, opened, hended,
                 hcloseCalls, hsock, sendOnNotOpen, twilioSent, nChunks, lastDrain,
                 closedOnce>>

\* onMessage, "media" branch: forward when ready, else queue.
Queue_onMessage_media(s) ==
  /\ rev = "queue"
  /\ Delivers(s)
  /\ nArrived < MaxFrames
  /\ LET k == nArrived + 1
         ready == isGoogleAIConnected /\ googleAISession # 0
     IN /\ IF ready
           THEN /\ aiReceived' = Submit(aiReceived, googleAISession, <<k>>)
                /\ UNCHANGED pendingAudioQueue
           ELSE /\ pendingAudioQueue' = Append(pendingAudioQueue, k)
                /\ UNCHANGED aiReceived
        /\ arrivalLog' = Append(arrivalLog, IF ready THEN "forwarded" ELSE "queued")
        /\ fwdAfterClose' = (fwdAfterClose \/ (ready /\ closedOnce))
  /\ lastOp' = "other"
  /\ UNCHANGED <<codecVars, routerLog, rev, hasKey, googleAISession, isGoogleAIConnected, twilioStreamSid,
                 ws, sock, wsCloseCalls, hst, opened, hended, hcloseCalls, hsock, sendOnNotOpen,
                 twilioSent, nChunks, lastDrain, closedOnce>>

\* onMessage, "stop" branch.
Queue_onMessage_stop(s) ==
  /\ rev = "queue"
  /\ Delivers(s)
  /\ Queue_onClose(sock)
  /\ UNCHANGED <<codecVars, routerLog, rev, hasKey, pendingAudioQueue, twilioStreamSid, ws, hst, opened,
                 hended, hsock, sendOnNotOpen, aiReceived, twilioSent, arrivalLog, nChunks, lastDrain, fwdAfterClose>>

\* connectToGoogleAI after the await: this.googleAISession = <the handle>.
Queue_connect_resolved(h) ==
  /\ rev = "queue"
  /\ hst[h] = "pending" /\ ~hended[h]
  /\ hst' = [hst EXCEPT ![h] = "resolved"]
  /\ googleAISession' = h
  /\ lastOp' = "other"
  /\ UNCHANGED <<codecVars, routerLog, rev, hasKey, isGoogleAIConnected, pendingAudioQueue, twilioStreamSid,
                 ws, sock, wsCloseCalls, opened, hended, hcloseCalls, hsock, sendOnNotOpen,
                 aiReceived, twilioSent, arrivalLog, nChunks, lastDrain, closedOnce, fwdAfterClose>>

\* connectToGoogleAI, catch block: this.ws?.close(1011, ...).
Queue_connect_rejected(h) ==
  /\ rev = "queue"
  /\ hst[h] = "pending" /\ ~opened[h] /\ ~hended[h]
  /\ hst' = [hst EXCEPT ![h] = "rejected"]
  /\ sock' = SockAfterClose(sock, ws)
  /\ wsCloseCalls' = CallsAfterClose(wsCloseCalls, ws)
  /\ lastOp' = "other"
  /\ UNCHANGED <<codecVars, routerLog, rev, hasKey, progVars, opened, hended, hcloseCalls, hsock, sendOnNotOpen,
                 aiReceived, twilioSent, arrivalLog, nChunks, lastDrain, closedOnce, fwdAfterClose>>

\* callbacks.onopen: set the flag, drain the queue, send the text trigger.
Queue_onopen(h) ==
  /\ rev = "queue"
  /\ hst[h] \in {"pending", "resolved"}
  /\ ~opened[h] /\ ~hended[h] /\ hcloseCalls[h] = 0
  /\ opened' = [opened EXCEPT ![h] = TRUE]
  /\ isGoogleAIConnected' = TRUE
  /\ pendingAudioQueue' = <<>>
  /\ aiReceived' = Submit(aiReceived, googleAISession, pendingAudioQueue \o <<0>>)
  /\ lastDrain' = [h |-> h, q |-> pendingAudioQueue,
                   sent |-> IF googleAISession # 0 THEN pendingAudioQueue ELSE <<>>,
                   at |-> nArrived]
  /\ fwdAfterClose' = (fwdAfterClose \/ (closedOnce /\ googleAISession # 0
                                            /\ pendingAudioQueue # <<>>))
  /\ lastOp' = "other"
  /\ UNCHANGED <<codecVars, routerLog, rev, hasKey, googleAISession, twilioStreamSid, ws, sock,
                 wsCloseCalls, hst, hended, hcloseCalls, hsock, sendOnNotOpen, twilioSent,
                 arrivalLog, nChunks, closedOnce>>

\* callbacks.onmessage: an audio chunk goes to this.ws when it is OPEN;
\* a message with no audio payload does nothing.
Queue_onmessage(h, audio) ==
  /\ rev = "queue"
  /\ opened[h] /\ ~hended[h]
  /\ IF audio
     THEN /\ nChunks < MaxChunks
          /\ nChunks' = nChunks + 1
          /\ twilioSent' = (IF IsOpen(sock, ws)
                            THEN [twilioSent EXCEPT ![ws] = Append(@,
                                    [c |-> nChunks + 1, sid |-> twilioStreamSid,
                                     from |-> h, fmt |-> AIOutputFormat])]
                            ELSE twilioSent)
          /\ fwdAfterClose' = (fwdAfterClose \/ (closedOnce /\ IsOpen(sock, ws)))
     ELSE UNCHANGED <<nChunks, twilioSent, fwdAfterClose>>
  /\ lastOp' = "other"
  /\ UNCHANGED <<codecVars, routerLog, rev, hasKey, progVars, sock, wsCloseCalls, hst, opened, hended,
                 hcloseCalls, hsock, sendOnNotOpen, aiReceived, arrivalLog, lastDrain, closedOnce>>

\* callbacks.onerror: this.ws?.close(1011, ...).
Queue_onerror(h) ==
  /\ rev = "queue"
  /\ hst[h] \in {"pending", "resolved"} /\ ~hended[h]
  /\ sock' = SockAfterClose(sock, ws)
  /\ wsCloseCalls' = CallsAfterClose(wsCloseCalls, ws)
  /\ lastOp' = "other"
  /\ UNCHANGED <<codecVars, routerLog, rev, hasKey, progVars, hst, opened, hended, hcloseCalls, hsock, sendOnNotOpen,
                 aiReceived, twilioSent, arrivalLog, nChunks, lastDrain, closedOnce, fwdAfterClose>>

\* callbacks.onclose with the handle left able to deliver onclose again.
Queue_onclose_Redelivers(h) ==
  /\ rev = "queue"
  /\ hst[h] \in {"pending", "resolved"} /\ ~hended[h]
  /\ opened[h] \/ hcloseCalls[h] > 0
  /\ Queue_onClose(sock)
  /\ UNCHANGED <<codecVars, routerLog, rev, hasKey, pendingAudioQueue, twilioStreamSid, ws, hst, opened,
                 hended, hsock, sendOnNotOpen, aiReceived, twilioSent, arrivalLog,
                 nChunks, lastDrain, fwdAfterClose>>

\* callbacks.onclose: this.onClose().
Queue_onclose(h) ==
  /\ rev = "queue"
  /\ hst[h] \in {"pending", "resolved"} /\ ~hended[h]
  /\ opened[h] \/ hcloseCalls[h] > 0
  /\ hended' = [hended EXCEPT ![h] = TRUE]
  /\ Queue_onClose(sock)
  /\ UNCHANGED <<codecVars, routerLog, rev, hasKey, pendingAudioQueue, twilioStreamSid, ws, hst, opened,
                 hsock, sendOnNotOpen, aiReceived, twilioSent, arrivalLog, nChunks, lastDrain, fwdAfterClose>>

\* The socket's "close" listener: this.onClose().
Queue_ws_close(s) ==
  /\ rev = "queue"
  /\ Delivers(s)
  /\ Queue_onClose([sock EXCEPT ![s] = "closed"])
  /\ UNCHANGED <<codecVars, routerLog, rev, hasKey, pendingAudioQueue, twilioStreamSid, ws, hst, opened,
                 hended, hsock, sendOnNotOpen, aiReceived, twilioSent, arrivalLog, nChunks, lastDrain, fwdAfterClose>>

\* The socket's "error" listener: this.onClose().
Queue_ws_error(s) ==
  /\ rev = "queue"
  /\ Delivers(s)
  /\ Queue_onClose(sock)
  /\ UNCHANGED <<codecVars, routerLog, rev, hasKey, pendingAudioQueue, twilioStreamSid, ws, hst, opened,
                 hended, hsock, sendOnNotOpen, aiReceived, twilioSent, arrivalLog, nChunks, lastDrain, fwdAfterClose>>

Next ==
  \/ \E s \in SockIds : Queue_handleConnection(s)
  \/ \E s \in SockIds, ok \in BOOLEAN : Queue_onMessage_start(s, ok)
  \/ \E s \in SockIds : Queue_onMessage_media(s)
  \/ \E s \in SockIds : Queue_onMessage_stop(s)
  \/ \E h \in HandleIds : Queue_connect_resolved(h)
  \/ \E h \in HandleIds : Queue_connect_rejected(h)
  \/ \E h \in HandleIds : Queue_onopen(h)
  \/ \E h \in HandleIds, a \in BOOLEAN : Queue_onmessage(h, a)
  \/ \E h \in HandleIds : Queue_onerror(h)
  \/ \E h \in HandleIds : Queue_onclose(h)
  \/ \E s \in SockIds : Queue_ws_close(s)
  \/ \E s \in SockIds : Queue_ws_error(s)

(***************************************************************************)
(* Revision "native": src/src/party/main.ts, lines 239-407.  The connect   *)
(* is issued by handleConnection; there is no queue and no start branch.   *)
(***************************************************************************)

\* The fields only the queueing revisions use.
queueVars == <<isGoogleAIConnected, pendingAudioQueue, twilioStreamSid, lastDrain>>

\* onClose(), run on the socket states sk its caller leaves.
Native_onClose(sk) ==
  /\ hcloseCalls' = HandleCallsAfterClose(hcloseCalls, googleAISession)
  /\ googleAISession' = 0
  /\ sock' = (IF IsOpen(sk, ws) THEN SockAfterClose(sk, ws) ELSE sk)
  /\ wsCloseCalls' = (IF IsOpen(sk, ws) THEN CallsAfterClose(wsCloseCalls, ws)
                      ELSE wsCloseCalls)
  /\ closedOnce' = TRUE
  /\ lastOp' = AfterOnClose

\* handleConnection(webSocket, request) up to the await.
\* instrOk: the URL carries systemInstruction.
Native_handleConnection(s, instrOk) ==
  /\ rev = "native"
  /\ s # 0 /\ s = FreshSock /\ Used < MaxResources
  /\ ws' = s
  /\ lastOp' = "other"
  /\ IF instrOk /\ hasKey
     THEN /\ FreshHandle # 0 /\ Used + 1 < MaxResources
          /\ sock' = [sock EXCEPT ![s] = "open"]
          /\ hst' = [hst EXCEPT ![FreshHandle] = "pending"]
          /\ hsock' = [hsock EXCEPT ![FreshHandle] = s]
          /\ UNCHANGED wsCloseCalls
     ELSE /\ sock' = [sock EXCEPT ![s] = "refused"]
          /\ wsCloseCalls' = CallsAfterClose(wsCloseCalls, s)
          /\ UNCHANGED <<hst, hsock>>
  /\ UNCHANGED <<codecVars, routerLog, rev, hasKey, googleAISession, queueVars, opened, hended, hcloseCalls,
                 aiReceived, twilioSent, arrivalLog, nChunks, closedOnce,
                 fwdAfterClose, sendOnNotOpen>>

\* handleConnection after the await: this.googleAISession = <the handle>.
Native_connect_resolved(h) ==
  /\ rev = "native"
  /\ hst[h] = "pending" /\ ~hended[h]
  /\ hst' = [hst EXCEPT ![h] = "resolved"]
  /\ googleAISession' = h
  /\ lastOp' = "other"
  /\ UNCHANGED <<codecVars, routerLog, rev, hasKey, queueVars, ws, sock, wsCloseCalls, opened, hended,
                 hcloseCalls, hsock, aiReceived, twilioSent, arrivalLog, nChunks,
                 closedOnce, fwdAfterClose, sendOnNotOpen>>

\* handleConnection, catch block: close this.ws when it is OPEN.
Native_connect_rejected(h) ==
  /\ rev = "native"
  /\ hst[h] = "pending" /\ ~opened[h] /\ ~hended[h]
  /\ hst' = [hst EXCEPT ![h] = "rejected"]
  /\ sock' = (IF IsOpen(sock, ws) THEN SockAfterClose(sock, ws) ELSE sock)
  /\ wsCloseCalls' = (IF IsOpen(sock, ws) THEN CallsAfterClose(wsCloseCalls, ws)
                      ELSE wsCloseCalls)
  /\ lastOp' = "other"
  /\ UNCHANGED <<codecVars, routerLog, rev, hasKey, googleAISession, queueVars, ws, opened, hended,
                 hcloseCalls, hsock, aiReceived, twilioSent, arrivalLog, nChunks,
                 closedOnce, fwdAfterClose, sendOnNotOpen>>

\* callbacks.onopen: this.googleAISession?.sendRealtimeInput({ text: "start" }).
Native_onopen(h) ==
  /\ rev = "native"
  /\ hst[h] \in {"pending", "resolved"}
  /\ ~opened[h] /\ ~hended[h] /\ hcloseCalls[h] = 0
  /\ opened' = [opened EXCEPT ![h] = TRUE]
  /\ aiReceived' = Submit(aiReceived, googleAISession, <<0>>)
  /\ lastOp' = "other"
  /\ UNCHANGED <<codecVars, routerLog, rev, hasKey, googleAISession, queueVars, ws, sock, wsCloseCalls, hst,
                 hended, hcloseCalls, hsock, twilioSent, arrivalLog, nChunks,
                 closedOnce, fwdAfterClose, sendOnNotOpen>>

\* callbacks.onmessage: an audio chunk goes to this.ws when it is OPEN.
Native_onmessage(h, audio) ==
  /\ rev = "native"
  /\ opened[h] /\ ~hended[h]
  /\ IF audio
     THEN /\ nChunks < MaxChunks
          /\ nChunks' = nChunks + 1
          /\ twilioSent' = (IF IsOpen(sock, ws)
                            THEN [twilioSent EXCEPT ![ws] = Append(@,
                                    [c |-> nChunks + 1, sid |-> "stream-id-placeholder",
                                     from |-> h, fmt |-> AIOutputFormat])]
                            ELSE twilioSent)
          /\ fwdAfterClose' = (fwdAfterClose \/ (closedOnce /\ IsOpen(sock, ws)))
     ELSE UNCHANGED <<nChunks, twilioSent, fwdAfterClose>>
  /\ lastOp' = "other"
  /\ UNCHANGED <<codecVars, routerLog, rev, hasKey, googleAISession, queueVars, ws, sock, wsCloseCalls, hst,
                 opened, hended, hcloseCalls, hsock, aiReceived, arrivalLog,
                 closedOnce, sendOnNotOpen>>

\* callbacks.onerror: close this.ws when it is OPEN.
Native_onerror(h) ==
  /\ rev = "native"
  /\ hst[h] \in {"pending", "resolved"} /\ ~hended[h]
  /\ sock' = (IF IsOpen(sock, ws) THEN SockAfterClose(sock, ws) ELSE sock)
  /\ wsCloseCalls' = (IF IsOpen(sock, ws) THEN CallsAfterClose(wsCloseCalls, ws)
                      ELSE wsCloseCalls)
  /\ lastOp' = "other"
  /\ UNCHANGED <<codecVars, routerLog, rev, hasKey, googleAISession, queueVars, ws, hst, opened, hended,
                 hcloseCalls, hsock, aiReceived, twilioSent, arrivalLog, nChunks,
                 closedOnce, fwdAfterClose, sendOnNotOpen>>

\* callbacks.onclose: this.onClose().
Native_onclose(h) ==
  /\ rev = "native"
  /\ hst[h] \in {"pending", "resolved"} /\ ~hended[h]
  /\ opened[h] \/ hcloseCalls[h] > 0
  /\ hended' = [hended EXCEPT ![h] = TRUE]
  /\ Native_onClose(sock)
  /\ UNCHANGED <<codecVars, routerLog, rev, hasKey, queueVars, ws, hst, opened, hsock, aiReceived,
                 twilioSent, arrivalLog, nChunks, fwdAfterClose, sendOnNotOpen>>

\* onMessage, "media": returns when this.googleAISession is null.
Native_onMessage_media(s) ==
  /\ rev = "native"
  /\ Delivers(s)
  /\ nArrived < MaxFrames
  /\ aiReceived' = Submit(aiReceived, googleAISession, <<nArrived + 1>>)
  /\ arrivalLog' = Append(arrivalLog,
                          IF googleAISession # 0 THEN "forwarded" ELSE "dropped")
  /\ fwdAfterClose' = (fwdAfterClose \/ (closedOnce /\ googleAISession # 0))
  /\ lastOp' = "other"
  /\ UNCHANGED <<codecVars, routerLog, rev, hasKey, googleAISession, queueVars, ws, sock, wsCloseCalls, hst,
                 opened, hended, hcloseCalls, hsock, twilioSent, nChunks, closedOnce,
                 sendOnNotOpen>>

\* onMessage, "stop": returns when this.googleAISession is null, else onClose().
Native_onMessage_stop(s) ==
  /\ rev = "native"
  /\ Delivers(s)
  /\ IF googleAISession # 0
     THEN Native_onClose(sock)
     ELSE /\ lastOp' = "other"
          /\ UNCHANGED <<googleAISession, hcloseCalls, sock, wsCloseCalls, closedOnce>>
  /\ UNCHANGED <<codecVars, routerLog, rev, hasKey, queueVars, ws, hst, opened, hended, hsock, aiReceived,
                 twilioSent, arrivalLog, nChunks, fwdAfterClose, sendOnNotOpen>>

\* The socket's "close" listener: this.onClose().
Native_ws_close(s) ==
  /\ rev = "native"
  /\ Delivers(s)
  /\ Native_onClose([sock EXCEPT ![s] = "closed"])
  /\ UNCHANGED <<codecVars, routerLog, rev, hasKey, queueVars, ws, hst, opened, hended, hsock, aiReceived,
                 twilioSent, arrivalLog, nChunks, fwdAfterClose, sendOnNotOpen>>

\* The socket's "error" listener: this.onClose().
Native_ws_error(s) ==
  /\ rev = "native"
  /\ Delivers(s)
  /\ Native_onClose(sock)
  /\ UNCHANGED <<codecVars, routerLog, rev, hasKey, queueVars, ws, hst, opened, hended, hsock, aiReceived,
                 twilioSent, arrivalLog, nChunks, fwdAfterClose, sendOnNotOpen>>

NativeNext ==
  \/ \E s \in SockIds, ok \in BOOLEAN : Native_handleConnection(s, ok)
  \/ \E h \in HandleIds : Native_connect_resolved(h)
  \/ \E h \in HandleIds : Native_connect_rejected(h)
  \/ \E h \in HandleIds : Native_onopen(h)
  \/ \E h \in HandleIds, a \in BOOLEAN : Native_onmessage(h, a)
  \/ \E h \in HandleIds : Native_onerror(h)
  \/ \E h \in HandleIds : Native_onclose(h)
  \/ \E s \in SockIds : Native_onMessage_media(s)
  \/ \E s \in SockIds : Native_onMessage_stop(s)
  \/ \E s \in SockIds : Native_ws_close(s)
  \/ \E s \in SockIds : Native_ws_error(s)

InitNative == InitRev("native")
SpecNative == InitNative /\ [][NativeNext]_vars

(***************************************************************************)
(* Revision "partykit": src/src/party/main.ts, lines 20-195.  The          *)
(* framework calls onConnect, onMessage and onClose; onConnect awaits the  *)
(* agent configuration and then the connect.  conn is the socket of the    *)
(* onConnect call (hsock), this.ws the last one accepted.                  *)
(***************************************************************************)

\* onClose(): closes and clears the handle; the socket is left alone.
PartyKit_onClose ==
  /\ hcloseCalls' = HandleCallsAfterClose(hcloseCalls, googleAISession)
  /\ googleAISession' = 0
  /\ closedOnce' = TRUE
  /\ lastOp' = AfterOnClose

\* onConnect(conn, ctx) up to await this.getAgentConfig(agentId).
\* agentIdOk: the URL carries an agent id.
PartyKit_onConnect(s, agentIdOk) ==
  /\ rev = "partykit"
  /\ s # 0 /\ s = FreshSock /\ Used < MaxResources
  /\ ws' = s
  /\ lastOp' = "other"
  /\ IF agentIdOk
     THEN /\ FreshHandle # 0 /\ Used + 1 < MaxResources
          /\ sock' = [sock EXCEPT ![s] = "open"]
          /\ hst' = [hst EXCEPT ![FreshHandle] = "config"]
          /\ hsock' = [hsock EXCEPT ![FreshHandle] = s]
          /\ UNCHANGED wsCloseCalls
     ELSE /\ sock' = [sock EXCEPT ![s] = "closing"]
          /\ wsCloseCalls' = CallsAfterClose(wsCloseCalls, s)
          /\ UNCHANGED <<hst, hsock>>
  /\ UNCHANGED <<codecVars, routerLog, rev, hasKey, googleAISession, queueVars, opened, hended, hcloseCalls,
                 aiReceived, twilioSent, arrivalLog, nChunks, closedOnce,
                 fwdAfterClose, sendOnNotOpen>>

\* onConnect after getAgentConfig: no configuration closes conn, else the
\* connect is issued.
PartyKit_config_done(h, found) ==
  /\ rev = "partykit"
  /\ hst[h] = "config"
  /\ lastOp' = "other"
  /\ IF found
     THEN /\ hst' = [hst EXCEPT ![h] = "pending"]
          /\ UNCHANGED <<sock, wsCloseCalls>>
     ELSE /\ hst' = [hst EXCEPT ![h] = "rejected"]
          /\ sock' = SockAfterClose(sock, hsock[h])
          /\ wsCloseCalls' = CallsAfterClose(wsCloseCalls, hsock[h])
  /\ UNCHANGED <<codecVars, routerLog, rev, hasKey, googleAISession, queueVars, ws, opened, hended,
                 hcloseCalls, hsock, aiReceived, twilioSent, arrivalLog, nChunks,
                 closedOnce, fwdAfterClose, sendOnNotOpen>>

\* onConnect after the awaited connect: this.googleAISession = <the handle>.
PartyKit_connect_resolved(h) ==
  /\ rev = "partykit"
  /\ hst[h] = "pending" /\ ~hended[h]
  /\ hst' = [hst EXCEPT ![h] = "resolved"]
  /\ googleAISession' = h
  /\ lastOp' = "other"
  /\ UNCHANGED <<codecVars, routerLog, rev, hasKey, queueVars, ws, sock, wsCloseCalls, opened, hended,
                 hcloseCalls, hsock, aiReceived, twilioSent, arrivalLog, nChunks,
                 closedOnce, fwdAfterClose, sendOnNotOpen>>

\* onConnect, catch block: this.ws.close(1011, ...).
PartyKit_connect_rejected(h) ==
  /\ rev = "partykit"
  /\ hst[h] = "pending" /\ ~opened[h] /\ ~hended[h]
  /\ hst' = [hst EXCEPT ![h] = "rejected"]
  /\ sock' = SockAfterClose(sock, ws)
  /\ wsCloseCalls' = CallsAfterClose(wsCloseCalls, ws)
  /\ lastOp' = "other"
  /\ UNCHANGED <<codecVars, routerLog, rev, hasKey, googleAISession, queueVars, ws, opened, hended,
                 hcloseCalls, hsock, aiReceived, twilioSent, arrivalLog, nChunks,
                 closedOnce, fwdAfterClose, sendOnNotOpen>>

\* callbacks.onopen: this.googleAISession?.sendRealtimeInput({ text: "start" }).
PartyKit_onopen(h) ==
  /\ rev = "partykit"
  /\ hst[h] \in {"pending", "resolved"}
  /\ ~opened[h] /\ ~hended[h] /\ hcloseCalls[h] = 0
  /\ opened' = [opened EXCEPT ![h] = TRUE]
  /\ aiReceived' = Submit(aiReceived, googleAISession, <<0>>)
  /\ lastOp' = "other"
  /\ UNCHANGED <<codecVars, routerLog, rev, hasKey, googleAISession, queueVars, ws, sock, wsCloseCalls, hst,
                 hended, hcloseCalls, hsock, twilioSent, arrivalLog, nChunks,
                 closedOnce, fwdAfterClose, sendOnNotOpen>>

\* callbacks.onmessage: an audio chunk is sent on this.ws when this.ws is
\* set; its readyState is not looked at.
PartyKit_onmessage(h, audio) ==
  /\ rev = "partykit"
  /\ opened[h] /\ ~hended[h]
  /\ IF audio
     THEN /\ nChunks < MaxChunks
          /\ nChunks' = nChunks + 1
          /\ twilioSent' = (IF IsOpen(sock, ws)
                            THEN [twilioSent EXCEPT ![ws] = Append(@,
                                    [c |-> nChunks + 1, sid |-> "room", from |-> h, fmt |-> AIOutputFormat])]
                            ELSE twilioSent)
          /\ sendOnNotOpen' = (sendOnNotOpen \/ (ws # 0 /\ ~IsOpen(sock, ws)))
          /\ fwdAfterClose' = (fwdAfterClose \/ (closedOnce /\ IsOpen(sock, ws)))
     ELSE UNCHANGED <<nChunks, twilioSent, fwdAfterClose, sendOnNotOpen>>
  /\ lastOp' = "other"
  /\ UNCHANGED <<codecVars, routerLog, rev, hasKey, googleAISession, queueVars, ws, sock, wsCloseCalls, hst,
                 opened, hended, hcloseCalls, hsock, aiReceived, arrivalLog,
                 closedOnce>>

\* callbacks.onerror: this.ws?.close(1011, ...).
PartyKit_onerror(h) ==
  /\ rev = "partykit"
  /\ hst[h] \in {"pending", "resolved"} /\ ~hended[h]
  /\ sock' = SockAfterClose(sock, ws)
  /\ wsCloseCalls' = CallsAfterClose(wsCloseCalls, ws)
  /\ lastOp' = "other"
  /\ UNCHANGED <<codecVars, routerLog, rev, hasKey, googleAISession, queueVars, ws, hst, opened, hended,
                 hcloseCalls, hsock, aiReceived, twilioSent, arrivalLog, nChunks,
                 closedOnce, fwdAfterClose, sendOnNotOpen>>

\* callbacks.onclose: closes this.ws when it is OPEN; onClose is not called.
PartyKit_onclose(h) ==
  /\ rev = "partykit"
  /\ hst[h] \in {"pending", "resolved"} /\ ~hended[h]
  /\ opened[h] \/ hcloseCalls[h] > 0
  /\ hended' = [hended EXCEPT ![h] = TRUE]
  /\ sock' = (IF IsOpen(sock, ws) THEN SockAfterClose(sock, ws) ELSE sock)
  /\ wsCloseCalls' = (IF IsOpen(sock, ws) THEN CallsAfterClose(wsCloseCalls, ws)
                      ELSE wsCloseCalls)
  /\ lastOp' = "other"
  /\ UNCHANGED <<codecVars, routerLog, rev, hasKey, googleAISession, queueVars, ws, hst, opened,
                 hcloseCalls, hsock, aiReceived, twilioSent, arrivalLog, nChunks,
                 closedOnce, fwdAfterClose, sendOnNotOpen>>

\* onMessage, "media": returns when this.googleAISession is null.
PartyKit_onMessage_media(s) ==
  /\ rev = "partykit"
  /\ Delivers(s)
  /\ nArrived < MaxFrames
  /\ aiReceived' = Submit(aiReceived, googleAISession, <<nArrived + 1>>)
  /\ arrivalLog' = Append(arrivalLog,
                          IF googleAISession # 0 THEN "forwarded" ELSE "dropped")
  /\ fwdAfterClose' = (fwdAfterClose \/ (closedOnce /\ googleAISession # 0))
  /\ lastOp' = "other"
  /\ UNCHANGED <<codecVars, routerLog, rev, hasKey, googleAISession, queueVars, ws, sock, wsCloseCalls, hst,
                 opened, hended, hcloseCalls, hsock, twilioSent, nChunks, closedOnce,
                 sendOnNotOpen>>

\* onMessage, "stop": returns when this.googleAISession is null, else onClose().
PartyKit_onMessage_stop(s) ==
  /\ rev = "partykit"
  /\ Delivers(s)
  /\ IF googleAISession # 0
     THEN PartyKit_onClose
     ELSE /\ lastOp' = "other"
          /\ UNCHANGED <<googleAISession, hcloseCalls, closedOnce>>
  /\ UNCHANGED <<codecVars, routerLog, rev, hasKey, queueVars, ws, sock, wsCloseCalls, hst, opened, hended,
                 hsock, aiReceived, twilioSent, arrivalLog, nChunks, fwdAfterClose,
                 sendOnNotOpen>>

\* The framework's onClose() call when the connection has closed.
PartyKit_conn_closed(s) ==
  /\ rev = "partykit"
  /\ Delivers(s)
  /\ sock' = [sock EXCEPT ![s] = "closed"]
  /\ PartyKit_onClose
  /\ UNCHANGED <<codecVars, routerLog, rev, hasKey, queueVars, ws, wsCloseCalls, hst, opened, hended, hsock,
                 aiReceived, twilioSent, arrivalLog, nChunks, fwdAfterClose,
                 sendOnNotOpen>>

PartyKitNext ==
  \/ \E s \in SockIds, ok \in BOOLEAN : PartyKit_onConnect(s, ok)
  \/ \E h \in HandleIds, f \in BOOLEAN : PartyKit_config_done(h, f)
  \/ \E h \in HandleIds : PartyKit_connect_resolved(h)
  \/ \E h \in HandleIds : PartyKit_connect_rejected(h)
  \/ \E h \in HandleIds : PartyKit_onopen(h)
  \/ \E h \in HandleIds, a \in BOOLEAN : PartyKit_onmessage(h, a)
  \/ \E h \in HandleIds : PartyKit_onerror(h)
  \/ \E h \in HandleIds : PartyKit_onclose(h)
  \/ \E s \in SockIds : PartyKit_onMessage_media(s)
  \/ \E s \in SockIds : PartyKit_onMessage_stop(s)
  \/ \E s \in SockIds : PartyKit_conn_closed(s)

InitPartyKit == InitRev("partykit")
SpecPartyKit == InitPartyKit /\ [][PartyKitNext]_vars

(***************************************************************************)
(* Revision "rawws": src/unnamed/part_000, lines 10-145.  The socket is a  *)
(* local of handleWebSocket (hsock of the handle), there is no this.ws and *)
(* no onClose method: the listeners do the cleanup.                        *)
(***************************************************************************)

\* handleWebSocket(ws, request) up to the await.
\* agentIdOk: the URL carries agentId.
RawWs_handleWebSocket(s, agentIdOk) ==
  /\ rev = "rawws"
  /\ s # 0 /\ s = FreshSock /\ Used < MaxResources
  /\ lastOp' = "other"
  /\ IF agentIdOk /\ hasKey
     THEN /\ FreshHandle # 0 /\ Used + 1 < MaxResources
          /\ sock' = [sock EXCEPT ![s] = "open"]
          /\ hst' = [hst EXCEPT ![FreshHandle] = "pending"]
          /\ hsock' = [hsock EXCEPT ![FreshHandle] = s]
          /\ UNCHANGED wsCloseCalls
     ELSE /\ sock' = [sock EXCEPT ![s] = "refused"]
          /\ wsCloseCalls' = CallsAfterClose(wsCloseCalls, s)
          /\ UNCHANGED <<hst, hsock>>
  /\ UNCHANGED <<codecVars, routerLog, rev, hasKey, googleAISession, queueVars, ws, opened, hended,
                 hcloseCalls, aiReceived, twilioSent, arrivalLog, nChunks, closedOnce,
                 fwdAfterClose, sendOnNotOpen>>

\* The "message" listener, media: returns when this.googleAISession is null.
RawWs_message_media(s) ==
  /\ rev = "rawws"
  /\ Delivers(s)
  /\ nArrived < MaxFrames
  /\ aiReceived' = Submit(aiReceived, googleAISession, <<nArrived + 1>>)
  /\ arrivalLog' = Append(arrivalLog,
                          IF googleAISession # 0 THEN "forwarded" ELSE "dropped")
  /\ fwdAfterClose' = (fwdAfterClose \/ (closedOnce /\ googleAISession # 0))
  /\ lastOp' = "other"
  /\ UNCHANGED <<codecVars, routerLog, rev, hasKey, googleAISession, queueVars, ws, sock, wsCloseCalls, hst,
                 opened, hended, hcloseCalls, hsock, twilioSent, nChunks, closedOnce,
                 sendOnNotOpen>>

\* The "message" listener, stop: this.googleAISession?.close(); the field
\* keeps the handle.
RawWs_message_stop(s) ==
  /\ rev = "rawws"
  /\ Delivers(s)
  /\ hcloseCalls' = HandleCallsAfterClose(hcloseCalls, googleAISession)
  /\ lastOp' = "other"
  /\ UNCHANGED <<codecVars, routerLog, rev, hasKey, googleAISession, queueVars, ws, sock, wsCloseCalls, hst,
                 opened, hended, hsock, aiReceived, twilioSent, arrivalLog, nChunks,
                 closedOnce, fwdAfterClose, sendOnNotOpen>>

\* The "close" listener: closes and clears this.googleAISession.
RawWs_ws_close(s) ==
  /\ rev = "rawws"
  /\ Delivers(s)
  /\ sock' = [sock EXCEPT ![s] = "closed"]
  /\ hcloseCalls' = HandleCallsAfterClose(hcloseCalls, googleAISession)
  /\ googleAISession' = 0
  /\ closedOnce' = TRUE
  /\ lastOp' = "other"
  /\ UNCHANGED <<codecVars, routerLog, rev, hasKey, queueVars, ws, wsCloseCalls, hst, opened, hended, hsock,
                 aiReceived, twilioSent, arrivalLog, nChunks, fwdAfterClose,
                 sendOnNotOpen>>

\* handleWebSocket after the await: this.googleAISession = <the handle>.
RawWs_connect_resolved(h) ==
  /\ rev = "rawws"
  /\ hst[h] = "pending" /\ ~hended[h]
  /\ hst' = [hst EXCEPT ![h] = "resolved"]
  /\ googleAISession' = h
  /\ lastOp' = "other"
  /\ UNCHANGED <<codecVars, routerLog, rev, hasKey, queueVars, ws, sock, wsCloseCalls, opened, hended,
                 hcloseCalls, hsock, aiReceived, twilioSent, arrivalLog, nChunks,
                 closedOnce, fwdAfterClose, sendOnNotOpen>>

\* handleWebSocket, catch block: ws.close(1011, ...).
RawWs_connect_rejected(h) ==
  /\ rev = "rawws"
  /\ hst[h] = "pending" /\ ~opened[h] /\ ~hended[h]
  /\ hst' = [hst EXCEPT ![h] = "rejected"]
  /\ sock' = SockAfterClose(sock, hsock[h])
  /\ wsCloseCalls' = CallsAfterClose(wsCloseCalls, hsock[h])
  /\ lastOp' = "other"
  /\ UNCHANGED <<codecVars, routerLog, rev, hasKey, googleAISession, queueVars, ws, opened, hended,
                 hcloseCalls, hsock, aiReceived, twilioSent, arrivalLog, nChunks,
                 closedOnce, fwdAfterClose, sendOnNotOpen>>

\* callbacks.onopen: this.googleAISession?.sendRealtimeInput({ text: "start" }).
RawWs_onopen(h) ==
  /\ rev = "rawws"
  /\ hst[h] \in {"pending", "resolved"}
  /\ ~opened[h] /\ ~hended[h] /\ hcloseCalls[h] = 0
  /\ opened' = [opened EXCEPT ![h] = TRUE]
  /\ aiReceived' = Submit(aiReceived, googleAISession, <<0>>)
  /\ lastOp' = "other"
  /\ UNCHANGED <<codecVars, routerLog, rev, hasKey, googleAISession, queueVars, ws, sock, wsCloseCalls, hst,
                 hended, hcloseCalls, hsock, twilioSent, arrivalLog, nChunks,
                 closedOnce, fwdAfterClose, sendOnNotOpen>>

\* callbacks.onmessage: an audio chunk goes to the local ws when it is OPEN.
RawWs_onmessage(h, audio) ==
  /\ rev = "rawws"
  /\ opened[h] /\ ~hended[h]
  /\ IF audio
     THEN /\ nChunks < MaxChunks
          /\ nChunks' = nChunks + 1
          /\ twilioSent' = (IF IsOpen(sock, hsock[h])
                            THEN [twilioSent EXCEPT ![hsock[h]] = Append(@,
                                    [c |-> nChunks + 1, sid |-> "stream-placeholder",
                                     from |-> h, fmt |-> AIOutputFormat])]
                            ELSE twilioSent)
          /\ fwdAfterClose' = (fwdAfterClose \/ (closedOnce /\ IsOpen(sock, hsock[h])))
     ELSE UNCHANGED <<nChunks, twilioSent, fwdAfterClose>>
  /\ lastOp' = "other"
  /\ UNCHANGED <<codecVars, routerLog, rev, hasKey, googleAISession, queueVars, ws, sock, wsCloseCalls, hst,
                 opened, hended, hcloseCalls, hsock, aiReceived, arrivalLog,
                 closedOnce, sendOnNotOpen>>

\* callbacks.onerror: ws.close(1011, ...).
RawWs_onerror(h) ==
  /\ rev = "rawws"
  /\ hst[h] \in {"pending", "resolved"} /\ ~hended[h]
  /\ sock' = SockAfterClose(sock, hsock[h])
  /\ wsCloseCalls' = CallsAfterClose(wsCloseCalls, hsock[h])
  /\ lastOp' = "other"
  /\ UNCHANGED <<codecVars, routerLog, rev, hasKey, googleAISession, queueVars, ws, hst, opened, hended,
                 hcloseCalls, hsock, aiReceived, twilioSent, arrivalLog, nChunks,
                 closedOnce, fwdAfterClose, sendOnNotOpen>>

\* callbacks.onclose: closes the local ws when it is OPEN.
RawWs_onclose(h) ==
  /\ rev = "rawws"
  /\ hst[h] \in {"pending", "resolved"} /\ ~hended[h]
  /\ opened[h] \/ hcloseCalls[h] > 0
  /\ hended' = [hended EXCEPT ![h] = TRUE]
  /\ sock' = (IF IsOpen(sock, hsock[h]) THEN SockAfterClose(sock, hsock[h]) ELSE sock)
  /\ wsCloseCalls' = (IF IsOpen(sock, hsock[h])
                      THEN CallsAfterClose(wsCloseCalls, hsock[h]) ELSE wsCloseCalls)
  /\ lastOp' = "other"
  /\ UNCHANGED <<codecVars, routerLog, rev, hasKey, googleAISession, queueVars, ws, hst, opened,
                 hcloseCalls, hsock, aiReceived, twilioSent, arrivalLog, nChunks,
                 closedOnce, fwdAfterClose, sendOnNotOpen>>

RawWsNext ==
  \/ \E s \in SockIds, ok \in BOOLEAN : RawWs_handleWebSocket(s, ok)
  \/ \E s \in SockIds : RawWs_message_media(s)
  \/ \E s \in SockIds : RawWs_message_stop(s)
  \/ \E s \in SockIds : RawWs_ws_close(s)
  \/ \E h \in HandleIds : RawWs_connect_resolved(h)
  \/ \E h \in HandleIds : RawWs_connect_rejected(h)
  \/ \E h \in HandleIds : RawWs_onopen(h)
  \/ \E h \in HandleIds, a \in BOOLEAN : RawWs_onmessage(h, a)
  \/ \E h \in HandleIds : RawWs_onerror(h)
  \/ \E h \in HandleIds : RawWs_onclose(h)

InitRawWs == InitRev("rawws")
SpecRawWs == InitRawWs /\ [][RawWsNext]_vars

(***************************************************************************)
(* Revision "mulawq": src/unnamed/part_002, lines 14-186.  The queueing    *)
(* relay that sends mu-law to the AI session: the start branch defaults    *)
(* the instruction, a missing API key only returns, the catch block and    *)
(* onerror only log, onopen drains without a text trigger.                 *)
(***************************************************************************)

\* twilioMessage.media.payload of a media event that carries no payload.
NoPayload == -1

\* The payloads the drain hands to sendAudioToGoogle: "if (payload)".
Truthy(q) == SelectSeq(q, LAMBDA x : x # NoPayload)

\* The kinds of AI message: an audio chunk, a turn-complete marker, any
\* other message with no audio.
AIMessageKinds == {"audio", "turnComplete", "other"}

\* The kinds of malformed telephony message: unparseable JSON, a media event
\* with no media object, a media event whose media object has no payload.
MalformedKinds == {"json", "nomedia", "nopayload"}

\* onClose().
Mulaw_onClose(sk) ==
  /\ isGoogleAIConnected' = FALSE
  /\ hcloseCalls' = HandleCallsAfterClose(hcloseCalls, googleAISession)
  /\ googleAISession' = 0
  /\ sock' = (IF IsOpen(sk, ws) THEN SockAfterClose(sk, ws) ELSE sk)
  /\ wsCloseCalls' = (IF IsOpen(sk, ws) THEN CallsAfterClose(wsCloseCalls, ws)
                      ELSE wsCloseCalls)
  /\ closedOnce' = TRUE
  /\ lastOp' = AfterOnClose

\* fetch() -> handleConnection(server).
Mulaw_handleConnection(s) ==
  /\ rev = "mulawq"
  /\ s # 0 /\ s = FreshSock /\ Used < MaxResources
  /\ sock' = [sock EXCEPT ![s] = "open"]
  /\ ws' = s
  /\ lastOp' = "other"
  /\ UNCHANGED <<codecVars, routerLog, rev, hasKey, googleAISession, isGoogleAIConnected, pendingAudioQueue,
                 twilioStreamSid, wsCloseCalls, hst, opened, hended, hcloseCalls,
                 hsock, sendOnNotOpen, aiReceived, twilioSent, arrivalLog, nChunks,
                 lastDrain, closedOnce, fwdAfterClose>>

\* onMessage, "start" branch, with connectToGoogleAI up to the await.
\* paramsOk: customParameters carries systemInstruction; when it does not the
\* instruction is defaulted and the connect is issued all the same.
Mulaw_onMessage_start(s, paramsOk) ==
  /\ rev = "mulawq"
  /\ Delivers(s)
  /\ twilioStreamSid' = s
  /\ lastOp' = "other"
  /\ IF hasKey
     THEN /\ FreshHandle # 0 /\ Used < MaxResources
          /\ hst' = [hst EXCEPT ![FreshHandle] = "pending"]
     ELSE UNCHANGED hst
  /\ UNCHANGED <<codecVars, routerLog, rev, hasKey, googleAISession, isGoogleAIConnected, pendingAudioQueue,
                 ws, sock, wsCloseCalls, opened, hended, hcloseCalls, hsock,
                 sendOnNotOpen, aiReceived, twilioSent, arrivalLog, nChunks, lastDrain,
                 closedOnce, fwdAfterClose>>

\* onMessage, "media" branch: sendAudioToGoogle when ready, else queue.
Mulaw_onMessage_media(s) ==
  /\ rev = "mulawq"
  /\ Delivers(s)
  /\ nArrived < MaxFrames
  /\ LET k == nArrived + 1
         ready == isGoogleAIConnected /\ googleAISession # 0
     IN /\ IF ready
           THEN /\ aiReceived' = Submit(aiReceived, googleAISession, <<k>>)
                /\ UNCHANGED pendingAudioQueue
           ELSE /\ pendingAudioQueue' = Append(pendingAudioQueue, k)
                /\ UNCHANGED aiReceived
        /\ arrivalLog' = Append(arrivalLog, IF ready THEN "forwarded" ELSE "queued")
        /\ fwdAfterClose' = (fwdAfterClose \/ (ready /\ closedOnce))
  /\ lastOp' = "other"
  /\ UNCHANGED <<codecVars, routerLog, rev, hasKey, googleAISession, isGoogleAIConnected, twilioStreamSid,
                 ws, sock, wsCloseCalls, hst, opened, hended, hcloseCalls, hsock,
                 sendOnNotOpen, twilioSent, nChunks, lastDrain, closedOnce>>

\* onMessage on a malformed message.  JSON.parse, or the read of
\* twilioMessage.media.payload with no media object, throws into the catch
\* block; a media object with no payload yields undefined, which takes the
\* media branch like any payload.
Mulaw_onMessage_malformed(s, kind) ==
  /\ rev = "mulawq"
  /\ Delivers(s)
  /\ nArrived < MaxFrames
  /\ LET ready == isGoogleAIConnected /\ googleAISession # 0
     IN IF kind = "nopayload"
        THEN IF ready
             THEN /\ aiReceived' = Submit(aiReceived, googleAISession, <<NoPayload>>)
                  /\ UNCHANGED pendingAudioQueue
             ELSE /\ pendingAudioQueue' = Append(pendingAudioQueue, NoPayload)
                  /\ UNCHANGED aiReceived
        ELSE UNCHANGED <<aiReceived, pendingAudioQueue>>
  /\ arrivalLog' = Append(arrivalLog, "malformed")
  /\ lastOp' = kind
  /\ UNCHANGED <<codecVars, routerLog, rev, hasKey, googleAISession, isGoogleAIConnected, twilioStreamSid,
                 ws, sock, wsCloseCalls, hst, opened, hended, hcloseCalls, hsock,
                 sendOnNotOpen, twilioSent, nChunks, lastDrain, closedOnce,
                 fwdAfterClose>>

\* onMessage, "stop" branch.
Mulaw_onMessage_stop(s) ==
  /\ rev = "mulawq"
  /\ Delivers(s)
  /\ Mulaw_onClose(sock)
  /\ UNCHANGED <<codecVars, routerLog, rev, hasKey, pendingAudioQueue, twilioStreamSid, ws, hst, opened,
                 hended, hsock, sendOnNotOpen, aiReceived, twilioSent, arrivalLog,
                 nChunks, lastDrain, fwdAfterClose>>

\* connectToGoogleAI after the await: this.googleAISession = <the handle>.
Mulaw_connect_resolved(h) ==
  /\ rev = "mulawq"
  /\ hst[h] = "pending" /\ ~hended[h]
  /\ hst' = [hst EXCEPT ![h] = "resolved"]
  /\ googleAISession' = h
  /\ lastOp' = "other"
  /\ UNCHANGED <<codecVars, routerLog, rev, hasKey, isGoogleAIConnected, pendingAudioQueue, twilioStreamSid,
                 ws, sock, wsCloseCalls, opened, hended, hcloseCalls, hsock,
                 sendOnNotOpen, aiReceived, twilioSent, arrivalLog, nChunks, lastDrain,
                 closedOnce, fwdAfterClose>>

\* connectToGoogleAI, catch block: console.error only.
Mulaw_connect_rejected(h) ==
  /\ rev = "mulawq"
  /\ hst[h] = "pending" /\ ~opened[h] /\ ~hended[h]
  /\ hst' = [hst EXCEPT ![h] = "rejected"]
  /\ lastOp' = "other"
  /\ UNCHANGED <<codecVars, routerLog, rev, hasKey, progVars, sock, wsCloseCalls, opened, hended,
                 hcloseCalls, hsock, sendOnNotOpen, aiReceived, twilioSent, arrivalLog,
                 nChunks, lastDrain, closedOnce, fwdAfterClose>>

\* callbacks.onopen: set the flag, drain the queue through sendAudioToGoogle.
Mulaw_onopen(h) ==
  /\ rev = "mulawq"
  /\ hst[h] \in {"pending", "resolved"}
  /\ ~opened[h] /\ ~hended[h] /\ hcloseCalls[h] = 0
  /\ opened' = [opened EXCEPT ![h] = TRUE]
  /\ isGoogleAIConnected' = TRUE
  /\ pendingAudioQueue' = <<>>
  /\ aiReceived' = Submit(aiReceived, googleAISession, Truthy(pendingAudioQueue))
  /\ lastDrain' = [h |-> h, q |-> pendingAudioQueue,
                   sent |-> IF googleAISession # 0 THEN Truthy(pendingAudioQueue)
                            ELSE <<>>,
                   at |-> nArrived]
  /\ fwdAfterClose' = (fwdAfterClose \/ (closedOnce /\ googleAISession # 0
                                            /\ Truthy(pendingAudioQueue) # <<>>))
  /\ lastOp' = "other"
  /\ UNCHANGED <<codecVars, routerLog, rev, hasKey, googleAISession, twilioStreamSid, ws, sock,
                 wsCloseCalls, hst, hended, hcloseCalls, hsock, sendOnNotOpen,
                 twilioSent, arrivalLog, nChunks, closedOnce>>

\* callbacks.onmessage with "this.ws.send" made whenever this.ws is set.
Mulaw_onmessage_SendsAlways(h, kind) ==
  /\ rev = "mulawq"
  /\ opened[h] /\ ~hended[h]
  /\ nChunks < MaxChunks
  /\ nChunks' = nChunks + 1
  /\ twilioSent' = (IF ws # 0
                    THEN [twilioSent EXCEPT ![ws] = Append(@,
                            [c |-> nChunks + 1, sid |-> twilioStreamSid, from |-> h,
                             fmt |-> linear16ToMuLaw(downsampleBuffer(AIOutputFormat, 24000, 8000))])]
                    ELSE twilioSent)
  /\ fwdAfterClose' = (fwdAfterClose \/ (closedOnce /\ ws # 0))
  /\ lastOp' = kind
  /\ UNCHANGED <<codecVars, routerLog, rev, hasKey, progVars, sock, wsCloseCalls, hst, opened, hended,
                 hcloseCalls, hsock, sendOnNotOpen, aiReceived, arrivalLog, lastDrain,
                 closedOnce>>

\* callbacks.onmessage: an audio chunk is transcoded and sent on this.ws when
\* it is OPEN; a turn-complete marker or any other message is only logged.
Mulaw_onmessage(h, kind) ==
  /\ rev = "mulawq"
  /\ opened[h] /\ ~hended[h]
  /\ IF kind = "audio"
     THEN /\ nChunks < MaxChunks
          /\ nChunks' = nChunks + 1
          /\ twilioSent' = (IF IsOpen(sock, ws)
                            THEN [twilioSent EXCEPT ![ws] = Append(@,
                                    [c |-> nChunks + 1, sid |-> twilioStreamSid,
                                     from |-> h,
                             fmt |-> linear16ToMuLaw(downsampleBuffer(AIOutputFormat, 24000, 8000))])]
                            ELSE twilioSent)
          /\ fwdAfterClose' = (fwdAfterClose \/ (closedOnce /\ IsOpen(sock, ws)))
     ELSE UNCHANGED <<nChunks, twilioSent, fwdAfterClose>>
  /\ lastOp' = kind
  /\ UNCHANGED <<codecVars, routerLog, rev, hasKey, progVars, sock, wsCloseCalls, hst, opened, hended,
                 hcloseCalls, hsock, sendOnNotOpen, aiReceived, arrivalLog, lastDrain,
                 closedOnce>>

\* callbacks.onerror: console.error only.
Mulaw_onerror(h) ==
  /\ rev = "mulawq"
  /\ hst[h] \in {"pending", "resolved"} /\ ~hended[h]
  /\ lastOp' = "onerror"
  /\ UNCHANGED <<codecVars, routerLog, rev, hasKey, progVars, sock, wsCloseCalls, hst, opened, hended,
                 hcloseCalls, hsock, sendOnNotOpen, aiReceived, twilioSent, arrivalLog,
                 nChunks, lastDrain, closedOnce, fwdAfterClose>>

\* callbacks.onclose: this.onClose().
Mulaw_onclose(h) ==
  /\ rev = "mulawq"
  /\ hst[h] \in {"pending", "resolved"} /\ ~hended[h]
  /\ opened[h] \/ hcloseCalls[h] > 0
  /\ hended' = [hended EXCEPT ![h] = TRUE]
  /\ Mulaw_onClose(sock)
  /\ UNCHANGED <<codecVars, routerLog, rev, hasKey, pendingAudioQueue, twilioStreamSid, ws, hst, opened,
                 hsock, sendOnNotOpen, aiReceived, twilioSent, arrivalLog, nChunks,
                 lastDrain, fwdAfterClose>>

\* The socket's "close" listener: this.onClose().
Mulaw_ws_close(s) ==
  /\ rev = "mulawq"
  /\ Delivers(s)
  /\ Mulaw_onClose([sock EXCEPT ![s] = "closed"])
  /\ UNCHANGED <<codecVars, routerLog, rev, hasKey, pendingAudioQueue, twilioStreamSid, ws, hst, opened,
                 hended, hsock, sendOnNotOpen, aiReceived, twilioSent, arrivalLog,
                 nChunks, lastDrain, fwdAfterClose>>

\* The socket's "error" listener: this.onClose().
Mulaw_ws_error(s) ==
  /\ rev = "mulawq"
  /\ Delivers(s)
  /\ Mulaw_onClose(sock)
  /\ UNCHANGED <<codecVars, routerLog, rev, hasKey, pendingAudioQueue, twilioStreamSid, ws, hst, opened,
                 hended, hsock, sendOnNotOpen, aiReceived, twilioSent, arrivalLog,
                 nChunks, lastDrain, fwdAfterClose>>

MulawNext ==
  \/ \E s \in SockIds : Mulaw_handleConnection(s)
  \/ \E s \in SockIds, ok \in BOOLEAN : Mulaw_onMessage_start(s, ok)
  \/ \E s \in SockIds : Mulaw_onMessage_media(s)
  \/ \E s \in SockIds, k \in MalformedKinds : Mulaw_onMessage_malformed(s, k)
  \/ \E s \in SockIds : Mulaw_onMessage_stop(s)
  \/ \E h \in HandleIds : Mulaw_connect_resolved(h)
  \/ \E h \in HandleIds : Mulaw_connect_rejected(h)
  \/ \E h \in HandleIds : Mulaw_onopen(h)
  \/ \E h \in HandleIds, k \in AIMessageKinds : Mulaw_onmessage(h, k)
  \/ \E h \in HandleIds : Mulaw_onerror(h)
  \/ \E h \in HandleIds : Mulaw_onclose(h)
  \/ \E s \in SockIds : Mulaw_ws_close(s)
  \/ \E s \in SockIds : Mulaw_ws_error(s)

InitMulaw == InitRev("mulawq")
SpecMulaw == InitMulaw /\ [][MulawNext]_vars

(***************************************************************************)
(* Revision "callserver": src/unnamed/part_000, lines 172-336.  The        *)
(* adapter's fetch builds one CallServer for the connection it accepts,    *)
(* so one CallServer with its one connection is modelled.  The adapter     *)
(* adds its listeners once onConnect has returned; the "close" and "error" *)
(* listeners call onClose / onError only when CallServer defines them,     *)
(* and it defines neither.  A message dispatched before the listeners are  *)
(* added is lost, which leaves the same state as onMessage returning on a  *)
(* null googleAISession.                                                   *)
(***************************************************************************)

\* PartyKitDurable.fetch -> CallServer.onConnect up to the await.
\* agentIdOk: the URL carries an agentId (query parameter or path).
CallServer_onConnect(s, agentIdOk) ==
  /\ rev = "callserver"
  /\ s # 0 /\ s = FreshSock /\ \A t \in SockIds : sock[t] = "none"
  /\ ws' = s
  /\ lastOp' = "other"
  /\ IF agentIdOk /\ hasKey
     THEN /\ FreshHandle # 0 /\ Used + 1 < MaxResources
          /\ sock' = [sock EXCEPT ![s] = "open"]
          /\ hst' = [hst EXCEPT ![FreshHandle] = "pending"]
          /\ hsock' = [hsock EXCEPT ![FreshHandle] = s]
          /\ UNCHANGED wsCloseCalls
     ELSE /\ sock' = [sock EXCEPT ![s] = "closing"]
          /\ wsCloseCalls' = CallsAfterClose(wsCloseCalls, s)
          /\ UNCHANGED <<hst, hsock>>
  /\ UNCHANGED <<codecVars, routerLog, rev, hasKey, googleAISession, queueVars, opened, hended,
                 hcloseCalls, aiReceived, twilioSent, arrivalLog, nChunks, closedOnce,
                 fwdAfterClose, sendOnNotOpen>>

\* onMessage, media: returns when this.googleAISession is null.
CallServer_onMessage_media(s) ==
  /\ rev = "callserver"
  /\ Delivers(s)
  /\ nArrived < MaxFrames
  /\ aiReceived' = Submit(aiReceived, googleAISession, <<nArrived + 1>>)
  /\ arrivalLog' = Append(arrivalLog,
                          IF googleAISession # 0 THEN "forwarded" ELSE "dropped")
  /\ fwdAfterClose' = (fwdAfterClose \/ (closedOnce /\ googleAISession # 0))
  /\ lastOp' = "other"
  /\ UNCHANGED <<codecVars, routerLog, rev, hasKey, googleAISession, queueVars, ws, sock, wsCloseCalls, hst,
                 opened, hended, hcloseCalls, hsock, twilioSent, nChunks, closedOnce,
                 sendOnNotOpen>>

\* onMessage, stop: this.googleAISession?.close(); the field keeps the handle.
CallServer_onMessage_stop(s) ==
  /\ rev = "callserver"
  /\ Delivers(s)
  /\ hcloseCalls' = HandleCallsAfterClose(hcloseCalls, googleAISession)
  /\ lastOp' = "stop"
  /\ UNCHANGED <<codecVars, routerLog, rev, hasKey, googleAISession, queueVars, ws, sock, wsCloseCalls, hst,
                 opened, hended, hsock, aiReceived, twilioSent, arrivalLog, nChunks,
                 closedOnce, fwdAfterClose, sendOnNotOpen>>

\* The adapter's "close" listener: CallServer has no onClose, nothing runs.
CallServer_ws_close(s) ==
  /\ rev = "callserver"
  /\ Delivers(s)
  /\ sock' = [sock EXCEPT ![s] = "closed"]
  /\ lastOp' = "wsClose"
  /\ UNCHANGED <<codecVars, routerLog, rev, hasKey, googleAISession, queueVars, ws, wsCloseCalls, hst,
                 opened, hended, hcloseCalls, hsock, aiReceived, twilioSent,
                 arrivalLog, nChunks, closedOnce, fwdAfterClose, sendOnNotOpen>>

\* The adapter's "error" listener: CallServer has no onError, nothing runs.
CallServer_ws_error(s) ==
  /\ rev = "callserver"
  /\ Delivers(s)
  /\ lastOp' = "wsError"
  /\ UNCHANGED <<codecVars, routerLog, rev, hasKey, googleAISession, queueVars, ws, sock, wsCloseCalls, hst,
                 opened, hended, hcloseCalls, hsock, aiReceived, twilioSent,
                 arrivalLog, nChunks, closedOnce, fwdAfterClose, sendOnNotOpen>>

\* onConnect after the await: this.googleAISession = <the handle>.
CallServer_connect_resolved(h) ==
  /\ rev = "callserver"
  /\ hst[h] = "pending" /\ ~hended[h]
  /\ hst' = [hst EXCEPT ![h] = "resolved"]
  /\ googleAISession' = h
  /\ lastOp' = "other"
  /\ UNCHANGED <<codecVars, routerLog, rev, hasKey, queueVars, ws, sock, wsCloseCalls, opened, hended,
                 hcloseCalls, hsock, aiReceived, twilioSent, arrivalLog, nChunks,
                 closedOnce, fwdAfterClose, sendOnNotOpen>>

\* onConnect, catch block: conn.close(1011, ...).
CallServer_connect_rejected(h) ==
  /\ rev = "callserver"
  /\ hst[h] = "pending" /\ ~opened[h] /\ ~hended[h]
  /\ hst' = [hst EXCEPT ![h] = "rejected"]
  /\ sock' = SockAfterClose(sock, hsock[h])
  /\ wsCloseCalls' = CallsAfterClose(wsCloseCalls, hsock[h])
  /\ lastOp' = "other"
  /\ UNCHANGED <<codecVars, routerLog, rev, hasKey, googleAISession, queueVars, ws, opened, hended,
                 hcloseCalls, hsock, aiReceived, twilioSent, arrivalLog, nChunks,
                 closedOnce, fwdAfterClose, sendOnNotOpen>>

\* callbacks.onopen: this.googleAISession?.sendRealtimeInput({ text: "start" }).
CallServer_onopen(h) ==
  /\ rev = "callserver"
  /\ hst[h] \in {"pending", "resolved"}
  /\ ~opened[h] /\ ~hended[h] /\ hcloseCalls[h] = 0
  /\ opened' = [opened EXCEPT ![h] = TRUE]
  /\ aiReceived' = Submit(aiReceived, googleAISession, <<0>>)
  /\ lastOp' = "other"
  /\ UNCHANGED <<codecVars, routerLog, rev, hasKey, googleAISession, queueVars, ws, sock, wsCloseCalls, hst,
                 hended, hcloseCalls, hsock, twilioSent, arrivalLog, nChunks,
                 closedOnce, fwdAfterClose, sendOnNotOpen>>

\* callbacks.onmessage: an audio chunk goes to conn when this.ws is OPEN.
CallServer_onmessage(h, audio) ==
  /\ rev = "callserver"
  /\ opened[h] /\ ~hended[h]
  /\ IF audio
     THEN /\ nChunks < MaxChunks
          /\ nChunks' = nChunks + 1
          /\ twilioSent' = (IF IsOpen(sock, ws)
                            THEN [twilioSent EXCEPT ![hsock[h]] = Append(@,
                                    [c |-> nChunks + 1, sid |-> "room", from |-> h, fmt |-> AIOutputFormat])]
                            ELSE twilioSent)
          /\ fwdAfterClose' = (fwdAfterClose \/ (closedOnce /\ IsOpen(sock, ws)))
     ELSE UNCHANGED <<nChunks, twilioSent, fwdAfterClose>>
  /\ lastOp' = "other"
  /\ UNCHANGED <<codecVars, routerLog, rev, hasKey, googleAISession, queueVars, ws, sock, wsCloseCalls, hst,
                 opened, hended, hcloseCalls, hsock, aiReceived, arrivalLog,
                 closedOnce, sendOnNotOpen>>

\* callbacks.onerror: conn.close(1011, ...).
CallServer_onerror(h) ==
  /\ rev = "callserver"
  /\ hst[h] \in {"pending", "resolved"} /\ ~hended[h]
  /\ sock' = SockAfterClose(sock, hsock[h])
  /\ wsCloseCalls' = CallsAfterClose(wsCloseCalls, hsock[h])
  /\ lastOp' = "other"
  /\ UNCHANGED <<codecVars, routerLog, rev, hasKey, googleAISession, queueVars, ws, hst, opened, hended,
                 hcloseCalls, hsock, aiReceived, twilioSent, arrivalLog, nChunks,
                 closedOnce, fwdAfterClose, sendOnNotOpen>>

\* callbacks.onclose: conn.close(1000, ...).
CallServer_onclose(h) ==
  /\ rev = "callserver"
  /\ hst[h] \in {"pending", "resolved"} /\ ~hended[h]
  /\ opened[h] \/ hcloseCalls[h] > 0
  /\ hended' = [hended EXCEPT ![h] = TRUE]
  /\ sock' = SockAfterClose(sock, hsock[h])
  /\ wsCloseCalls' = CallsAfterClose(wsCloseCalls, hsock[h])
  /\ lastOp' = "other"
  /\ UNCHANGED <<codecVars, routerLog, rev, hasKey, googleAISession, queueVars, ws, hst, opened,
                 hcloseCalls, hsock, aiReceived, twilioSent, arrivalLog, nChunks,
                 closedOnce, fwdAfterClose, sendOnNotOpen>>

CallServerNext ==
  \/ \E s \in SockIds, ok \in BOOLEAN : CallServer_onConnect(s, ok)
  \/ \E s \in SockIds : CallServer_onMessage_media(s)
  \/ \E s \in SockIds : CallServer_onMessage_stop(s)
  \/ \E s \in SockIds : CallServer_ws_close(s)
  \/ \E s \in SockIds : CallServer_ws_error(s)
  \/ \E h \in HandleIds : CallServer_connect_resolved(h)
  \/ \E h \in HandleIds : CallServer_connect_rejected(h)
  \/ \E h \in HandleIds : CallServer_onopen(h)
  \/ \E h \in HandleIds, a \in BOOLEAN : CallServer_onmessage(h, a)
  \/ \E h \in HandleIds : CallServer_onerror(h)
  \/ \E h \in HandleIds : CallServer_onclose(h)

InitCallServer == InitRev("callserver")
SpecCallServer == InitCallServer /\ [][CallServerNext]_vars

(***************************************************************************)
(* Revision "testmode": src/unnamed/part_004, lines 49-279.  The mu-law    *)
(* relay with the caller's audio switched off: the media branch only logs, *)
(* onopen sends a text request and drains nothing, sendAudioToGoogle is    *)
(* never called.  AI audio goes through sendAudioToTwilio.                 *)
(***************************************************************************)

\* The kinds of AI message: audio in message.data, audio in a part of
\* serverContent.modelTurn.parts, a turn-complete marker, any other message.
TestMessageKinds == {"data", "parts", "turnComplete", "other"}

\* Where the transcoding of a chunk throws, if it does.
TranscodeFailures == {"none", "downsample", "encode"}

\* sendAudioToTwilio with the send made on what downsampleBuffer returned
\* when linear16ToMuLaw throws.
sendAudioToTwilio_SendsPartial(sent, c, h, fail) ==
  IF ~IsOpen(sock, ws) THEN sent
  ELSE IF fail = "downsample" THEN sent
  ELSE [sent EXCEPT ![ws] = Append(@,
          [c |-> c, sid |-> twilioStreamSid, from |-> h,
           fmt |-> IF fail = "encode"
                   THEN downsampleBuffer(AIOutputFormat, 24000, 8000)
                   ELSE linear16ToMuLaw(downsampleBuffer(AIOutputFormat, 24000, 8000))])]

\* sendAudioToTwilio(audioData): the messages sent after it.  It returns when
\* this.ws is not OPEN; the send follows both conversions inside one try, so
\* a conversion that throws goes to the catch block with nothing sent.
sendAudioToTwilio(sent, c, h, fail) ==
  IF ~IsOpen(sock, ws) THEN sent
  ELSE IF fail # "none" THEN sent
  ELSE [sent EXCEPT ![ws] = Append(@,
          [c |-> c, sid |-> twilioStreamSid, from |-> h,
           fmt |-> linear16ToMuLaw(downsampleBuffer(AIOutputFormat, 24000, 8000))])]

\* onClose().
TestMode_onClose(sk) ==
  /\ isGoogleAIConnected' = FALSE
  /\ hcloseCalls' = HandleCallsAfterClose(hcloseCalls, googleAISession)
  /\ googleAISession' = 0
  /\ sock' = (IF IsOpen(sk, ws) THEN SockAfterClose(sk, ws) ELSE sk)
  /\ wsCloseCalls' = (IF IsOpen(sk, ws) THEN CallsAfterClose(wsCloseCalls, ws)
                      ELSE wsCloseCalls)
  /\ closedOnce' = TRUE
  /\ lastOp' = AfterOnClose

\* fetch() -> handleConnection(server).
TestMode_handleConnection(s) ==
  /\ rev = "testmode"
  /\ s # 0 /\ s = FreshSock /\ Used < MaxResources
  /\ sock' = [sock EXCEPT ![s] = "open"]
  /\ ws' = s
  /\ lastOp' = "other"
  /\ UNCHANGED <<codecVars, routerLog, rev, hasKey, googleAISession, isGoogleAIConnected, pendingAudioQueue,
                 twilioStreamSid, wsCloseCalls, hst, opened, hended, hcloseCalls,
                 hsock, sendOnNotOpen, aiReceived, twilioSent, arrivalLog, nChunks,
                 lastDrain, closedOnce, fwdAfterClose>>

\* onMessage, "start" branch, with connectToGoogleAI up to the await.
TestMode_onMessage_start(s, paramsOk) ==
  /\ rev = "testmode"
  /\ Delivers(s)
  /\ twilioStreamSid' = s
  /\ lastOp' = "other"
  /\ IF hasKey
     THEN /\ FreshHandle # 0 /\ Used < MaxResources
          /\ hst' = [hst EXCEPT ![FreshHandle] = "pending"]
     ELSE UNCHANGED hst
  /\ UNCHANGED <<codecVars, routerLog, rev, hasKey, googleAISession, isGoogleAIConnected, pendingAudioQueue,
                 ws, sock, wsCloseCalls, opened, hended, hcloseCalls, hsock,
                 sendOnNotOpen, aiReceived, twilioSent, arrivalLog, nChunks, lastDrain,
                 closedOnce, fwdAfterClose>>

\* onMessage, "media" branch: console.log only.
TestMode_onMessage_media(s) ==
  /\ rev = "testmode"
  /\ Delivers(s)
  /\ nArrived < MaxFrames
  /\ arrivalLog' = Append(arrivalLog, "dropped")
  /\ lastOp' = "media"
  /\ UNCHANGED <<codecVars, routerLog, rev, hasKey, progVars, sock, wsCloseCalls, hst, opened, hended,
                 hcloseCalls, hsock, sendOnNotOpen, aiReceived, twilioSent, nChunks,
                 lastDrain, closedOnce, fwdAfterClose>>

\* onMessage, "stop" branch.
TestMode_onMessage_stop(s) ==
  /\ rev = "testmode"
  /\ Delivers(s)
  /\ TestMode_onClose(sock)
  /\ UNCHANGED <<codecVars, routerLog, rev, hasKey, pendingAudioQueue, twilioStreamSid, ws, hst, opened,
                 hended, hsock, sendOnNotOpen, aiReceived, twilioSent, arrivalLog,
                 nChunks, lastDrain, fwdAfterClose>>

\* connectToGoogleAI after the await: this.googleAISession = <the handle>.
TestMode_connect_resolved(h) ==
  /\ rev = "testmode"
  /\ hst[h] = "pending" /\ ~hended[h]
  /\ hst' = [hst EXCEPT ![h] = "resolved"]
  /\ googleAISession' = h
  /\ lastOp' = "other"
  /\ UNCHANGED <<codecVars, routerLog, rev, hasKey, isGoogleAIConnected, pendingAudioQueue, twilioStreamSid,
                 ws, sock, wsCloseCalls, opened, hended, hcloseCalls, hsock,
                 sendOnNotOpen, aiReceived, twilioSent, arrivalLog, nChunks, lastDrain,
                 closedOnce, fwdAfterClose>>

\* connectToGoogleAI, catch block: console.error only.
TestMode_connect_rejected(h) ==
  /\ rev = "testmode"
  /\ hst[h] = "pending" /\ ~opened[h] /\ ~hended[h]
  /\ hst' = [hst EXCEPT ![h] = "rejected"]
  /\ lastOp' = "other"
  /\ UNCHANGED <<codecVars, routerLog, rev, hasKey, progVars, sock, wsCloseCalls, opened, hended,
                 hcloseCalls, hsock, sendOnNotOpen, aiReceived, twilioSent, arrivalLog,
                 nChunks, lastDrain, closedOnce, fwdAfterClose>>

\* callbacks.onopen: set the flag, send the text request; the queue is left.
TestMode_onopen(h) ==
  /\ rev = "testmode"
  /\ hst[h] \in {"pending", "resolved"}
  /\ ~opened[h] /\ ~hended[h] /\ hcloseCalls[h] = 0
  /\ opened' = [opened EXCEPT ![h] = TRUE]
  /\ isGoogleAIConnected' = TRUE
  /\ aiReceived' = Submit(aiReceived, googleAISession, <<0>>)
  /\ lastOp' = "other"
  /\ UNCHANGED <<codecVars, routerLog, rev, hasKey, googleAISession, pendingAudioQueue, twilioStreamSid, ws,
                 sock, wsCloseCalls, hst, hended, hcloseCalls, hsock, sendOnNotOpen,
                 twilioSent, arrivalLog, nChunks, lastDrain, closedOnce,
                 fwdAfterClose>>

\* callbacks.onmessage: audio in message.data or in a part goes through
\* sendAudioToTwilio; a turn-complete marker or any other message is logged.
TestMode_onmessage(h, kind, fail) ==
  /\ rev = "testmode"
  /\ opened[h] /\ ~hended[h]
  /\ IF kind \in {"data", "parts"}
     THEN /\ nChunks < MaxChunks
          /\ nChunks' = nChunks + 1
          /\ twilioSent' = sendAudioToTwilio(twilioSent, nChunks + 1, h, fail)
          /\ fwdAfterClose' = (fwdAfterClose
                               \/ (closedOnce /\ twilioSent' # twilioSent))
          /\ lastOp' = (IF fail = "none" \/ ~IsOpen(sock, ws) THEN kind ELSE fail)
     ELSE /\ fail = "none"
          /\ lastOp' = kind
          /\ UNCHANGED <<nChunks, twilioSent, fwdAfterClose>>
  /\ UNCHANGED <<codecVars, routerLog, rev, hasKey, progVars, sock, wsCloseCalls, hst, opened, hended,
                 hcloseCalls, hsock, sendOnNotOpen, aiReceived, arrivalLog, lastDrain,
                 closedOnce>>

\* callbacks.onerror: console.error only.
TestMode_onerror(h) ==
  /\ rev = "testmode"
  /\ hst[h] \in {"pending", "resolved"} /\ ~hended[h]
  /\ lastOp' = "onerror"
  /\ UNCHANGED <<codecVars, routerLog, rev, hasKey, progVars, sock, wsCloseCalls, hst, opened, hended,
                 hcloseCalls, hsock, sendOnNotOpen, aiReceived, twilioSent, arrivalLog,
                 nChunks, lastDrain, closedOnce, fwdAfterClose>>

\* callbacks.onclose: this.onClose().
TestMode_onclose(h) ==
  /\ rev = "testmode"
  /\ hst[h] \in {"pending", "resolved"} /\ ~hended[h]
  /\ opened[h] \/ hcloseCalls[h] > 0
  /\ hended' = [hended EXCEPT ![h] = TRUE]
  /\ TestMode_onClose(sock)
  /\ UNCHANGED <<codecVars, routerLog, rev, hasKey, pendingAudioQueue, twilioStreamSid, ws, hst, opened,
                 hsock, sendOnNotOpen, aiReceived, twilioSent, arrivalLog, nChunks,
                 lastDrain, fwdAfterClose>>

\* The socket's "close" listener: this.onClose().
TestMode_ws_close(s) ==
  /\ rev = "testmode"
  /\ Delivers(s)
  /\ TestMode_onClose([sock EXCEPT ![s] = "closed"])
  /\ UNCHANGED <<codecVars, routerLog, rev, hasKey, pendingAudioQueue, twilioStreamSid, ws, hst, opened,
                 hended, hsock, sendOnNotOpen, aiReceived, twilioSent, arrivalLog,
                 nChunks, lastDrain, fwdAfterClose>>

\* The socket's "error" listener: this.onClose().
TestMode_ws_error(s) ==
  /\ rev = "testmode"
  /\ Delivers(s)
  /\ TestMode_onClose(sock)
  /\ UNCHANGED <<codecVars, routerLog, rev, hasKey, pendingAudioQueue, twilioStreamSid, ws, hst, opened,
                 hended, hsock, sendOnNotOpen, aiReceived, twilioSent, arrivalLog,
                 nChunks, lastDrain, fwdAfterClose>>

TestModeNext ==
  \/ \E s \in SockIds : TestMode_handleConnection(s)
  \/ \E s \in SockIds, ok \in BOOLEAN : TestMode_onMessage_start(s, ok)
  \/ \E s \in SockIds : TestMode_onMessage_media(s)
  \/ \E s \in SockIds : TestMode_onMessage_stop(s)
  \/ \E h \in HandleIds : TestMode_connect_resolved(h)
  \/ \E h \in HandleIds : TestMode_connect_rejected(h)
  \/ \E h \in HandleIds : TestMode_onopen(h)
  \/ \E h \in HandleIds, k \in TestMessageKinds, f \in TranscodeFailures :
        TestMode_onmessage(h, k, f)
  \/ \E h \in HandleIds : TestMode_onerror(h)
  \/ \E h \in HandleIds : TestMode_onclose(h)
  \/ \E s \in SockIds : TestMode_ws_close(s)
  \/ \E s \in SockIds : TestMode_ws_error(s)

InitTestMode == InitRev("testmode")
SpecTestMode == InitTestMode /\ [][TestModeNext]_vars

(***************************************************************************)
(* The inbound transcoding of src/unnamed/part_004: muLawToLinear16 (lines *)
(* 15-34) and upsampleTo16k (lines 37-47), applied in that order by        *)
(* sendAudioToGoogle (lines 126-128) to the bytes of a media payload.      *)
(***************************************************************************)

Bytes == 0..255

\* Storing a number in an Int16Array element: it wraps modulo 2^16.
ToInt16(x) == ((x + 32768) % 65536) - 32768

\* The table entry computed with the shift one bit wider.
muLawLinear_WideShift(i) ==
  LET sample == 255 - i
      sign == IF (sample \div 128) % 2 = 1 THEN -1 ELSE 1
      exponent == (sample \div 16) % 8
      mantissa == sample % 16
  IN sign * ((((2 * mantissa) + 33) * (2 ^ (exponent + 3))) - 33)

\* The value computed for table entry i, before it is stored: sample is the
\* low byte of ~i; sign, exponent and mantissa are its bit 7, bits 6-4 and
\* bits 3-0; linear = (((mantissa << 1) + 33) << (exponent + 2)) - 33.
muLawLinear(i) ==
  LET sample == 255 - i
      sign == IF (sample \div 128) % 2 = 1 THEN -1 ELSE 1
      exponent == (sample \div 16) % 8
      mantissa == sample % 16
  IN sign * ((((2 * mantissa) + 33) * (2 ^ (exponent + 2))) - 33)

\* muLawToLinear16Table[i]
muLawToLinear16Table(i) == ToInt16(muLawLinear(i))

\* muLawToLinear16 with the output loop started at the second byte.
muLawToLinear16_SkipsFirst(buf) ==
  [k \in 1..(IF Len(buf) = 0 THEN 0 ELSE Len(buf) - 1) |->
     muLawToLinear16Table(buf[k + 1])]

\* muLawToLinear16(muLawBuffer): one sample per byte, looked up in the table.
muLawToLinear16(buf) ==
  [k \in 1..Len(buf) |-> muLawToLinear16Table(buf[k])]

\* upsampleTo16k with the second store of the loop left out: the odd slots
\* keep the zero the Int16Array was created with.
upsampleTo16k_EvenSlotsOnly(pcm8k) ==
  [j \in 1..(2 * Len(pcm8k)) |-> IF j % 2 = 1 THEN pcm8k[(j + 1) \div 2] ELSE 0]

\* upsampleTo16k(pcm8k): samples16k[2i] and samples16k[2i+1] are samples8k[i]
\* (indices from 0; here from 1).
upsampleTo16k(pcm8k) ==
  [j \in 1..(2 * Len(pcm8k)) |-> pcm8k[(j + 1) \div 2]]

\* The byte sequences of at most MaxLen bytes.
MuLawBuffers == UNION {[1..n -> Bytes] : n \in 0..MaxLen}

\* const pcm8kBuffer = muLawToLinear16(muLawBuffer)
Codec_muLawToLinear16 ==
  /\ rev = "codec"
  /\ codecStep = "input"
  /\ pcm8kBuffer' = muLawToLinear16(muLawBuffer)
  /\ codecStep' = "decoded"
  /\ UNCHANGED <<rev, hasKey, progVars, envVars, ghostVars, routerLog, muLawBuffer, pcm16kBuffer>>

\* const pcm16kBuffer = upsampleTo16k(pcm8kBuffer)
Codec_upsampleTo16k ==
  /\ rev = "codec"
  /\ codecStep = "decoded"
  /\ pcm16kBuffer' = upsampleTo16k(pcm8kBuffer)
  /\ codecStep' = "upsampled"
  /\ UNCHANGED <<rev, hasKey, progVars, envVars, ghostVars, routerLog, muLawBuffer, pcm8kBuffer>>

CodecNext == Codec_muLawToLinear16 \/ Codec_upsampleTo16k

\* const muLawBuffer = Buffer.from(base64Payload, 'base64'): any bytes.
InitCodec ==
  /\ muLawBuffer \in MuLawBuffers
  /\ pcm8kBuffer = <<>>
  /\ pcm16kBuffer = <<>>
  /\ codecStep = "input"
  /\ routerLog = <<>>
  /\ rev = "codec"
  /\ hasKey = TRUE
  /\ googleAISession = 0
  /\ isGoogleAIConnected = FALSE
  /\ pendingAudioQueue = <<>>
  /\ twilioStreamSid = 0
  /\ ws = 0
  /\ sock = [s \in SockIds |-> "none"]
  /\ wsCloseCalls = [s \in SockIds |-> 0]
  /\ hst = [h \in HandleIds |-> "unused"]
  /\ opened = [h \in HandleIds |-> FALSE]
  /\ hended = [h \in HandleIds |-> FALSE]
  /\ hcloseCalls = [h \in HandleIds |-> 0]
  /\ hsock = [h \in HandleIds |-> 0]
  /\ aiReceived = [h \in HandleIds |-> <<>>]
  /\ twilioSent = [s \in SockIds |-> <<>>]
  /\ arrivalLog = <<>>
  /\ nChunks = 0
  /\ lastDrain = NoDrain
  /\ closedOnce = FALSE
  /\ fwdAfterClose = FALSE
  /\ sendOnNotOpen = FALSE
  /\ lastOp = "other"

SpecCodec == InitCodec /\ [][CodecNext]_vars

(***************************************************************************)
(* The router of src/unnamed/part_000, lines 339-355: the stateless fetch  *)
(* handler that picks the Durable Object a request is passed to.           *)
(***************************************************************************)

\* The segments of a URL path; two of them are Call SIDs.
Segments == {"party", "CA1", "CA2", "agent"}
\* part.startsWith("CA")
StartsWithCA(part) == part \in {"CA1", "CA2"}

\* url.pathname.split("/").filter(p => p) of the requests routed.
Paths == UNION {[1..n -> Segments] : n \in 0..MaxPath}

\* pathParts.find(part => part.startsWith("CA")): the first such segment,
\* "" for undefined.
FindCallSid(pathParts) ==
  IF \E i \in 1..Len(pathParts) : StartsWithCA(pathParts[i])
  THEN pathParts[CHOOSE i \in 1..Len(pathParts) :
                   /\ StartsWithCA(pathParts[i])
                   /\ \A j \in 1..Len(pathParts) : StartsWithCA(pathParts[j]) => i <= j]
  ELSE ""

\* const roomName = pathParts.find(...) || "default-room"
Router_roomName(pathParts) ==
  IF FindCallSid(pathParts) # "" THEN FindCallSid(pathParts) ELSE "default-room"

\* fetch(request, env): idFromName(roomName), get(id), stub.fetch(request).
Router_fetch(pathParts) ==
  /\ rev = "router"
  /\ Len(routerLog) < MaxRequests
  /\ routerLog' = Append(routerLog, [path |-> pathParts, forwarded |-> TRUE,
                                     room |-> Router_roomName(pathParts)])
  /\ UNCHANGED <<rev, hasKey, progVars, envVars, ghostVars, codecVars>>

RouterNext == \E pathParts \in Paths : Router_fetch(pathParts)

InitRouter == InitRev("router")
SpecRouter == InitRouter /\ [][RouterNext]_vars

Spec == Init /\ [][Next]_vars

(***************************************************************************)
(* The queueing revision with a LiveSession whose close() may run          *)
(* callbacks.onclose before it returns, and with the runtime delivering    *)
(* every close event it owes.                                              *)
(***************************************************************************)

\* onClose() when this.googleAISession.close() runs callbacks.onclose before
\* returning: the callback's onClose still finds the handle in the field and
\* calls close() on it again, nulls the field and closes the socket; the
\* outer onClose then finds nothing left to do.  he: the handles whose close
\* notification the caller has already consumed.
Queue_onClose_reentrant(sk, he) ==
  /\ googleAISession # 0 /\ ~he[googleAISession]
  /\ hended' = [he EXCEPT ![googleAISession] = TRUE]
  /\ isGoogleAIConnected' = FALSE
  /\ hcloseCalls' = HandleCallsAfterClose(
                       HandleCallsAfterClose(hcloseCalls, googleAISession),
                       googleAISession)
  /\ googleAISession' = 0
  /\ sock' = (IF IsOpen(sk, ws) THEN SockAfterClose(sk, ws) ELSE sk)
  /\ wsCloseCalls' = (IF IsOpen(sk, ws) THEN CallsAfterClose(wsCloseCalls, ws)
                      ELSE wsCloseCalls)
  /\ closedOnce' = TRUE
  /\ lastOp' = "onClose2"

\* onMessage, "stop" branch, with the synchronous close notification.
Queue_onMessage_stop_reentrant(s) ==
  /\ rev = "queue"
  /\ Delivers(s)
  /\ Queue_onClose_reentrant(sock, hended)
  /\ UNCHANGED <<codecVars, routerLog, rev, hasKey, pendingAudioQueue, twilioStreamSid, ws, hst, opened,
                 hsock, sendOnNotOpen, aiReceived, twilioSent, arrivalLog, nChunks,
                 lastDrain, fwdAfterClose>>

\* callbacks.onclose of handle h, with the synchronous close notification of
\* the handle the field holds.
Queue_onclose_reentrant(h) ==
  /\ rev = "queue"
  /\ hst[h] \in {"pending", "resolved"} /\ ~hended[h]
  /\ opened[h] \/ hcloseCalls[h] > 0
  /\ Queue_onClose_reentrant(sock, [hended EXCEPT ![h] = TRUE])
  /\ UNCHANGED <<codecVars, routerLog, rev, hasKey, pendingAudioQueue, twilioStreamSid, ws, hst, opened,
                 hsock, sendOnNotOpen, aiReceived, twilioSent, arrivalLog, nChunks,
                 lastDrain, fwdAfterClose>>

\* The socket's "close" listener, with the synchronous close notification.
Queue_ws_close_reentrant(s) ==
  /\ rev = "queue"
  /\ Delivers(s)
  /\ Queue_onClose_reentrant([sock EXCEPT ![s] = "closed"], hended)
  /\ UNCHANGED <<codecVars, routerLog, rev, hasKey, pendingAudioQueue, twilioStreamSid, ws, hst, opened,
                 hsock, sendOnNotOpen, aiReceived, twilioSent, arrivalLog, nChunks,
                 lastDrain, fwdAfterClose>>

\* The socket's "error" listener, with the synchronous close notification.
Queue_ws_error_reentrant(s) ==
  /\ rev = "queue"
  /\ Delivers(s)
  /\ Queue_onClose_reentrant(sock, hended)
  /\ UNCHANGED <<codecVars, routerLog, rev, hasKey, pendingAudioQueue, twilioStreamSid, ws, hst, opened,
                 hsock, sendOnNotOpen, aiReceived, twilioSent, arrivalLog, nChunks,
                 lastDrain, fwdAfterClose>>

\* A close event the runtime owes: onclose of a handle on which close() was
\* called, the close event of a socket on which close() was called.
OwedOnclose(h) == hst[h] \in {"pending", "resolved"} /\ ~hended[h] /\ hcloseCalls[h] > 0
OwedWsClose(s) == sock[s] = "closing"

CascadeNext ==
  \/ Next
  \/ \E s \in SockIds : Queue_onMessage_stop_reentrant(s)
  \/ \E h \in HandleIds : Queue_onclose_reentrant(h)
  \/ \E s \in SockIds : Queue_ws_close_reentrant(s)
  \/ \E s \in SockIds : Queue_ws_error_reentrant(s)

\* The event loop dispatches every close event that is owed.
CascadeFairness ==
  /\ \A h \in HandleIds : WF_vars(OwedOnclose(h) /\ Queue_onclose(h))
  /\ \A s \in SockIds : WF_vars(OwedWsClose(s) /\ Queue_ws_close(s))

SpecCascade == Init /\ [][CascadeNext]_vars /\ CascadeFairness


(***************************************************************************)
(* Properties.                                                             *)
(***************************************************************************)

\* The audio frames of a sequence of sendRealtimeInput requests.
AudioOf(seq) == SelectSeq(seq, LAMBDA x : x # 0)
Elems(seq) == {seq[i] : i \in 1..Len(seq)}
Increasing(seq) == \A i, j \in 1..Len(seq) : i < j => seq[i] < seq[j]

\* C1: in the queueing revision, the drain of the onopen callback submits
\* exactly the queued payloads, in their arrival order, and leaves the queue
\* empty (it is empty as long as no further frame has arrived).
C1_DrainSubmitsQueueInOrder ==
  lastDrain.h # 0 =>
    /\ lastDrain.sent = lastDrain.q
    /\ nArrived = lastDrain.at => pendingAudioQueue = <<>>

\* C2: every AI session receives audio in telephony order, and a frame that
\* arrived after the open notification is received only after every frame
\* that was buffered at that notification.
C2_OrderAcrossBufferBoundary ==
  \A h \in HandleIds :
    LET a == AudioOf(aiReceived[h])
    IN /\ Increasing(a)
       /\ \A i \in 1..Len(a) :
            (lastDrain.h # 0 /\ a[i] > lastDrain.at) =>
               \A k \in Elems(lastDrain.q) : \E j \in 1..(i - 1) : a[j] = k

\* C3: a media frame that arrives while the session has no AI handle yet
\* (no configuration, or connect pending) is buffered, never dropped.
C3_NotReadyFramesAreBuffered ==
  \A k \in 1..nArrived : arrivalLog[k] # "dropped"

\* C4: no buffered frame is lost: a frame that was queued on arrival is still
\* in pendingAudioQueue or was submitted to an AI session.
C4_NoBufferedFrameLost ==
  \A k \in 1..nArrived :
    arrivalLog[k] = "queued" =>
      \/ k \in Elems(pendingAudioQueue)
      \/ \E h \in HandleIds : k \in Elems(aiReceived[h])

\* C5: the instance never holds two live AI session handles at once.
C5_AtMostOneLiveHandle ==
  Cardinality({h \in HandleIds : Live(h)}) <= 1

\* Every telephony connection of the run has ended.
AllSocketsDone == /\ \E s \in SockIds : sock[s] # "none"
                  /\ \A s \in SockIds : sock[s] \in {"none", "closed", "refused"}

\* C6: close() is never called twice on one handle, and once every telephony
\* connection has ended no obtained handle is left without its close() call.
C6_HandleClosedExactlyOnce ==
  \A h \in HandleIds :
    /\ hcloseCalls[h] <= 1
    /\ (AllSocketsDone /\ hst[h] = "resolved" /\ ~hended[h]) => hcloseCalls[h] = 1

\* C7: an onClose invoked right after an onClose changes no field of the
\* instance and calls close() on no handle and on no socket.
C7_OnCloseIdempotent ==
  [][lastOp' = "onClose2" =>
       UNCHANGED <<progVars, hcloseCalls, wsCloseCalls>>]_vars

\* C7 witness: onClose ran twice in a row after the first run had closed a
\* handle and the telephony socket.
C7_Witness ==
  /\ rev = "queue"
  /\ lastOp = "onClose2"
  /\ \E h \in HandleIds : hcloseCalls[h] = 1
  /\ \E s \in SockIds : wsCloseCalls[s] = 1

\* C8: once a stop message has been processed, no AI handle is live and no
\* telephony socket is open.
C8_StopReleasesBoth ==
  [][(\E s \in SockIds : PartyKit_onMessage_stop(s)) =>
       /\ \A h \in HandleIds :
            ~(hst'[h] = "resolved" /\ hcloseCalls'[h] = 0 /\ ~hended'[h])
       /\ \A s \in SockIds : sock'[s] # "open"]_vars

\* C9: once onClose has run the instance holds no AI handle and is not
\* marked connected.
C9_ClosedIsTerminal ==
  closedOnce => (googleAISession = 0 /\ ~isGoogleAIConnected)

\* C10: once onClose has run no audio is forwarded, to the AI session or to
\* the telephony socket.
C10_NoAudioAfterClose == ~fwdAfterClose

\* C11: once close() has been called on an AI handle (the stop message does
\* so), no media frame is submitted to that handle.
C11_NoMediaToClosedHandle ==
  [][\A h \in HandleIds :
       hcloseCalls[h] > 0 => AudioOf(aiReceived'[h]) = AudioOf(aiReceived[h])]_vars

\* C12: an AI audio chunk is sent on the telephony socket only while that
\* socket is OPEN: send() is never called on a socket that is closing or
\* closed.
C12_SendOnlyWhenOpen ==
  ~sendOnNotOpen

\* C13: an AI message that carries no audio (a turn-complete marker or any
\* other message) sends nothing on the telephony socket, closes nothing and
\* leaves the fields of the instance unchanged.
C13_NoAudioMessageIsIgnored ==
  [][(\E h \in HandleIds, k \in AIMessageKinds \ {"audio"} : Mulaw_onmessage(h, k))
       => UNCHANGED <<progVars, envVars, nChunks>>]_vars

\* A turn-complete marker has just been handled while streaming: the handle
\* is assigned and open, the telephony socket is OPEN.
C13_Witness ==
  /\ rev = "mulawq"
  /\ lastOp = "turnComplete"
  /\ isGoogleAIConnected /\ googleAISession # 0 /\ opened[googleAISession]
  /\ IsOpen(sock, ws)

\* C14: a start event that lacks the required configuration requests no AI
\* connect and closes the telephony socket.
C14_MissingConfigCloses ==
  [][(\E s \in SockIds : Mulaw_onMessage_start(s, FALSE))
       => (hst' = hst /\ ~IsOpen(sock', ws'))]_vars

\* C15: when ai.live.connect fails the telephony socket is closed: it does
\* not stay OPEN with no AI handle.
C15_ConnectFailureClosesSocket ==
  [][(\E h \in HandleIds : Mulaw_connect_rejected(h)) => ~IsOpen(sock', ws')]_vars

\* C16: while streaming, an error or close event of the AI session releases
\* the AI handle and closes the telephony socket.
C16_AIFailureClosesBoth ==
  [][(\E h \in HandleIds :
         /\ isGoogleAIConnected /\ googleAISession = h /\ opened[h]
         /\ Mulaw_onerror(h) \/ Mulaw_onclose(h))
       => (googleAISession' = 0 /\ ~IsOpen(sock', ws'))]_vars

\* C17: when the telephony socket closes or errors, the AI handle the
\* instance holds is closed and the field cleared.
C17_TelephonyCloseReleasesHandle ==
  [][(\E s \in SockIds : CallServer_ws_close(s) \/ CallServer_ws_error(s))
       => (googleAISession' = 0
           /\ \A h \in HandleIds :
                ~(hst'[h] = "resolved" /\ hcloseCalls'[h] = 0 /\ ~hended'[h]))]_vars

\* C18: from a state that is not closed, a forced failure (telephony close
\* or error, AI error, connect failure, start with no API key) leaves, in
\* that one step, no AI handle, the ready flag off and no OPEN socket.
C18_ForcedFailureReachesClosed ==
  [][(/\ ~closedOnce
      /\ \/ \E s \in SockIds : Mulaw_ws_close(s) \/ Mulaw_ws_error(s)
         \/ \E s \in SockIds, ok \in BOOLEAN : ~hasKey /\ Mulaw_onMessage_start(s, ok)
         \/ \E h \in HandleIds : Mulaw_onerror(h) \/ Mulaw_connect_rejected(h))
       => (googleAISession' = 0 /\ ~isGoogleAIConnected' /\ ~IsOpen(sock', ws'))]_vars

\* C19: a malformed telephony message (unparseable JSON, a media event with
\* no payload) changes nothing: the fields of the instance, the queue among
\* them, are unchanged, nothing is closed and nothing is submitted to the AI
\* session.
C19_MalformedMessageIsDropped ==
  [][(\E s \in SockIds, k \in MalformedKinds : Mulaw_onMessage_malformed(s, k))
       => UNCHANGED <<progVars, sock, wsCloseCalls, hcloseCalls, aiReceived>>]_vars

\* The cap of the pending-frame buffer.  The design leaves its value open;
\* it is set below the number of frames one run delivers.
PendingCap == 1

\* C20: the pending queue never holds more than the cap.
C20_PendingQueueCapped ==
  Len(pendingAudioQueue) <= PendingCap

\* C21: audio is never misrouted between two connections of one instance:
\* every chunk sent on a telephony socket comes from the AI session that was
\* requested by that socket's own start event.
C21_NoCrossCallAudio ==
  \A s \in SockIds : \A i \in 1..Len(twilioSent[s]) :
     hsock[twilioSent[s][i].from] = s

\* C22: in Streaming (flag set, handle present), each inbound media frame
\* produces exactly one audio submission to the AI session.
C22_StreamingFrameIsSubmitted ==
  [][\A s \in SockIds :
       (TestMode_onMessage_media(s) /\ isGoogleAIConnected /\ googleAISession # 0)
       => Len(AudioOf(aiReceived'[googleAISession]))
            = Len(AudioOf(aiReceived[googleAISession])) + 1]_vars

\* C23: every payload sent to the telephony side is the AI output resampled
\* from 24 kHz to 8 kHz and then mu-law encoded.
C23_TelephonyAudioIsTranscoded ==
  \A s \in SockIds : \A i \in 1..Len(twilioSent[s]) :
     twilioSent[s][i].fmt = TelephonyFormat

\* C24: when the session is not Streaming, a media frame is appended to the
\* pending queue as the payload received, nothing is submitted to the AI
\* session, and the handle, the ready flag and the telephony socket are
\* left unchanged.
C24_NotStreamingFrameIsQueuedRaw ==
  [][\A s \in SockIds :
       (Queue_onMessage_media(s) /\ ~(isGoogleAIConnected /\ googleAISession # 0))
       => /\ pendingAudioQueue' = Append(pendingAudioQueue, nArrived + 1)
          /\ UNCHANGED <<googleAISession, isGoogleAIConnected, ws, sock,
                         twilioStreamSid, aiReceived>>]_vars

\* A frame has just been queued while the session was not Streaming.
C24_Witness ==
  /\ rev = "queue"
  /\ arrivalLog # <<>> /\ arrivalLog[Len(arrivalLog)] = "queued"
  /\ pendingAudioQueue # <<>>
  /\ pendingAudioQueue[Len(pendingAudioQueue)] = nArrived
  /\ ~(isGoogleAIConnected /\ googleAISession # 0)

\* C25: the pending queue is drained exactly once per session: after the
\* first drain no other drain happens.
C25_SingleDrain ==
  [][lastDrain.h # 0 => lastDrain' = lastDrain]_vars

\* C26: the text trigger (0) is submitted exactly once to every AI session
\* whose open notification has been delivered.
C26_OneTriggerPerOpenedSession ==
  \A h \in HandleIds :
     opened[h] => Len(SelectSeq(aiReceived[h], LAMBDA x : x = 0)) = 1

\* C27: at most one AI connect is requested per session.
C27_AtMostOneConnect ==
  Cardinality({h \in HandleIds : hst[h] # "unused"}) <= 1

\* C28: whenever the session is Streaming between two handlers (flag set,
\* handle present), the pending queue is empty.
C28_StreamingImpliesEmptyQueue ==
  (isGoogleAIConnected /\ googleAISession # 0) => pendingAudioQueue = <<>>

\* C29: an AI audio chunk is sent only fully transcoded, and when one of the
\* two conversions throws nothing is sent and the session state is unchanged.
C29_TranscodeAllOrNothing ==
  [][\A h \in HandleIds, k \in {"data", "parts"}, f \in TranscodeFailures :
       TestMode_onmessage(h, k, f)
       => /\ f # "none" => UNCHANGED <<twilioSent, progVars, envVars>>
          /\ \A s \in SockIds :
               \A i \in (Len(twilioSent[s]) + 1)..Len(twilioSent'[s]) :
                  twilioSent'[s][i].fmt = TelephonyFormat]_vars

\* A conversion has just thrown for a chunk while the telephony socket was
\* OPEN, and nothing has been sent.
C29_Witness ==
  /\ rev = "testmode"
  /\ lastOp \in {"downsample", "encode"}
  /\ IsOpen(sock, ws)
  /\ nChunks > 0
  /\ \A s \in SockIds : twilioSent[s] = <<>>

\* C30: every media message sent to the telephony side carries the stream
\* identifier received in the start event of the connection it is sent on.
C30_StreamSidOfSameCall ==
  \A s \in SockIds : \A i \in 1..Len(twilioSent[s]) :
     twilioSent[s][i].sid = s

\* C31: in the queueing relay the ready flag is never set while the instance
\* holds no handle: isGoogleAIConnected implies googleAISession is non-null.
C31_ReadyFlagImpliesHandle ==
  isGoogleAIConnected => googleAISession # 0

\* C32: right after onClose has run, the pending queue is empty.
C32_OnCloseEmptiesQueue ==
  lastOp \in {"onClose", "onClose2"} => pendingAudioQueue = <<>>

G711Expand14(i) ==
  LET u == 255 - i
      magnitude == ((((u % 16) * 2) + 33) * (2 ^ ((u \div 16) % 8))) - 33
  IN IF (u \div 128) % 2 = 1 THEN -magnitude ELSE magnitude

\* The same expansion on the 16-bit scale (two more bits of shift, bias 132).
G711Expand(i) == 4 * G711Expand14(i)

\* C34: every sample returned by muLawToLinear16 is the G.711 mu-law
\* expansion of the byte it was decoded from, on the 16-bit scale or on the
\* 14-bit scale.
C34_DecodeIsG711 ==
  codecStep # "input" =>
    \/ \A k \in 1..Len(pcm8kBuffer) : pcm8kBuffer[k] = G711Expand(muLawBuffer[k])
    \/ \A k \in 1..Len(pcm8kBuffer) : pcm8kBuffer[k] = G711Expand14(muLawBuffer[k])

\* C35: muLawToLinear16 returns exactly one sample for each byte of its
\* input, whatever the bytes are, and leaves the input as it was.
C35_DecodeKeepsSampleCount ==
  [][Codec_muLawToLinear16 =>
       /\ Len(pcm8kBuffer') = Len(muLawBuffer)
       /\ DOMAIN pcm8kBuffer' = DOMAIN muLawBuffer
       /\ muLawBuffer' = muLawBuffer]_vars

\* A buffer of MaxLen bytes holding the two extreme byte values has been
\* decoded.
C35_Witness ==
  /\ rev = "codec" /\ codecStep = "decoded"
  /\ muLawBuffer = <<0, 255>>
  /\ Len(pcm8kBuffer) = 2

\* C36: upsampleTo16k returns twice as many samples as it is given, and the
\* two output samples 2i and 2i+1 (from 0) both equal input sample i.
C36_UpsampleDuplicates ==
  codecStep = "upsampled" =>
    /\ Len(pcm16kBuffer) = 2 * Len(pcm8kBuffer)
    /\ \A i \in 1..Len(pcm8kBuffer) :
         /\ pcm16kBuffer[(2 * i) - 1] = pcm8kBuffer[i]
         /\ pcm16kBuffer[2 * i] = pcm8kBuffer[i]

\* A block of two different non-zero samples has been upsampled.
C36_Witness ==
  /\ rev = "codec" /\ codecStep = "upsampled"
  /\ Len(pcm8kBuffer) = 2
  /\ pcm8kBuffer[1] # 0 /\ pcm8kBuffer[2] # 0 /\ pcm8kBuffer[1] # pcm8kBuffer[2]
  /\ Len(pcm16kBuffer) = 4

\* C37: the value computed for every byte lies in the signed 16-bit range, so
\* the sample stored is the value computed.
C37_TableFitsInt16 ==
  \A k \in 1..Len(muLawBuffer) :
     /\ muLawLinear(muLawBuffer[k]) \in -32768..32767
     /\ codecStep # "input" => pcm8kBuffer[k] = muLawLinear(muLawBuffer[k])

\* The two bytes of largest magnitude have been decoded.
C37_Witness ==
  /\ rev = "codec" /\ codecStep = "decoded"
  /\ muLawBuffer = <<0, 128>>
  /\ pcm8kBuffer = <<-32223, 32223>>

\* C38: a request is passed to a Durable Object only when its path holds a
\* Call SID, and then to the object named by that Call SID, so that requests
\* of different calls reach different objects.
C38_RoutedOnlyByCallSid ==
  \A i \in 1..Len(routerLog) :
     routerLog[i].forwarded =>
       /\ FindCallSid(routerLog[i].path) # ""
       /\ routerLog[i].room = FindCallSid(routerLog[i].path)

====
